---- MODULE Spec2Model ----
(***************************************************************************)
(* Verification model of the Mushroom Gateway scene:                       *)
(*   - SeededRandom (utils/Random.js), the Mulberry32 stream;              *)
(*   - the placement passes createInstancedTrees (forest/TreeGenerator.js) *)
(*     and createInstancedMushrooms (mushrooms/MushroomGenerator.js);      *)
(*   - the day/night cycle of main.js (animate, the toggle click handler,  *)
(*     the model-load callback) and the toggle wiring of app.js;           *)
(*   - the terrain noise pseudoRandom / interpolatedNoise                  *)
(*     (terrain/TerrainGenerator.js, kept in utils/Constants.js).          *)
(*                                                                         *)
(* Numbers.  TLC integers are 32-bit signed, so a 32-bit word is kept as   *)
(* two 16-bit halves [hi, lo]; the stream state `seed` is a JavaScript     *)
(* number that the code never wraps, so its hi half is unbounded.          *)
(* Real-valued quantities are fixed point: lengths, angles and scales in   *)
(* thousandths, cycle progress in units of 1/ProgressOne, noise values in  *)
(* millionths.  The lattice hash works on doubles that hold integers; they *)
(* are kept exactly, as sign and magnitude in 15-bit limbs, and rounded to *)
(* 53 significant bits after every operation as IEEE arithmetic does.      *)
(***************************************************************************)
EXTENDS Integers, Sequences, FiniteSets, TLC

----------------------------------------------------------------------------
(* 32-bit word arithmetic on 16-bit halves                                 *)

H16 == 2^16
B8 == 2^8

RECURSIVE XorN(_, _, _)
XorN(a, b, n) ==
    IF n = 0 THEN 0
    ELSE ((a + b) % 2) + 2 * XorN(a \div 2, b \div 2, n - 1)

RECURSIVE OrN(_, _, _)
OrN(a, b, n) ==
    IF n = 0 THEN 0
    ELSE (IF (a % 2) + (b % 2) > 0 THEN 1 ELSE 0) + 2 * OrN(a \div 2, b \div 2, n - 1)

\* a ^ b on 32-bit words
WXor(a, b) == [hi |-> XorN(a.hi, b.hi, 16), lo |-> XorN(a.lo, b.lo, 16)]

\* a | c for a small constant c (c < 2^16)
WOrSmall(a, c) == [hi |-> a.hi, lo |-> OrN(a.lo, c, 16)]

\* a >>> k for 0 < k < 16
WShr(a, k) ==
    [hi |-> a.hi \div 2^k,
     lo |-> (a.lo \div 2^k) + (a.hi % 2^k) * 2^(16 - k)]

\* (a + b) mod 2^32
WAdd(a, b) ==
    LET s == a.lo + b.lo
    IN  [hi |-> (a.hi + b.hi + s \div H16) % H16, lo |-> s % H16]

\* (a * b) mod 2^16 for 16-bit a, b, without leaving 31 bits
MulLo16(a, b) == ((a % B8) * b + (((a \div B8) * b) % B8) * B8) % H16

\* the full 32-bit product of 16-bit a, b as a word
Mul16(a, b) ==
    LET p0 == (a % B8) * b           \* < 2^24
        p1 == (a \div B8) * b        \* < 2^24, weight 2^8
        lo == (p0 % H16) + (p1 % B8) * B8
        hi == (p0 \div H16) + (p1 \div B8) + (lo \div H16)
    IN  [hi |-> hi % H16, lo |-> lo % H16]

\* Math.imul(a, b): the low 32 bits of the product
Imul(a, b) ==
    LET ll == Mul16(a.lo, b.lo)
        cross == (MulLo16(a.hi, b.lo) + MulLo16(a.lo, b.hi)) % H16
    IN  [hi |-> (ll.hi + cross) % H16, lo |-> ll.lo]

\* ToUint32 of a non-negative integral JavaScript number
ToUint32(n) == [hi |-> n.hi % H16, lo |-> n.lo]

\* a small natural as a number in halves
Num(n) == [hi |-> n \div H16, lo |-> n % H16]

----------------------------------------------------------------------------
(* State                                                                   *)

VARIABLES
    clock,      \* milliseconds elapsed on the wall clock read by Date.now()
    streams     \* the SeededRandom objects under test, with the calls made on each

rvars == <<clock, streams>>

VARIABLES
    args,       \* the placement call: function and its parameters (lengths in thousandths)
    prng,       \* the seed field of the SeededRandom passed as prng
    pc,         \* where the placement function is
    i,          \* the loop index i of the loop at pc
    trees,      \* createInstancedTrees: the two counts and the four instanced meshes
    mush,       \* createInstancedMushrooms: counts, instanceTypes, vIdx and the meshes
    rejected    \* candidates rejected in a row by the do/while at pc

pvars == <<args, prng, pc, i, trees, mush, rejected>>

VARIABLES
    isDaytime,          \* main.js: the phase
    dayTimeProgress,    \* main.js: progress of the day phase, in progress units
    nightTimeProgress,  \* main.js: progress of the night phase
    sceneState,         \* main.js: background, fog, light and material colours in effect
    lightPosition,      \* main.js: directionalLight.position
    sunMesh,            \* main.js: [visible]
    moonMesh,           \* main.js: [visible]
    textContent,        \* main.js: the toggle button's label
    mushroomGate,       \* main.js: TRUE once the model-load callback has run
    app,                \* app.js: its own isDaytime, meshes, scene properties and label
    last                \* the last event handled and the phase/progress it started from

cvars == <<isDaytime, dayTimeProgress, nightTimeProgress, sceneState, lightPosition,
           sunMesh, moonMesh, textContent, mushroomGate, app, last>>

VARIABLES
    noiseCall,  \* the terrain function under test and its arguments
    noiseValue  \* what the call returned, in millionths (0 before it has run)

tvars == <<noiseCall, noiseValue>>

VARIABLES
    spawnedMushrooms,   \* main.js: the mushroomData records, oldest first
    mushroomTemplates,  \* main.js: the number of templates (0 while undefined)
    portalMesh,         \* main.js: [exists, position]
    pointerEvents,      \* pointerdown events handled since the initial state
    frames              \* frames rendered since the initial state, where counted

svars == <<spawnedMushrooms, mushroomTemplates, portalMesh, pointerEvents, frames>>

vars == <<rvars, pvars, cvars, tvars, svars>>

----------------------------------------------------------------------------
(* SeededRandom                                                            *)

\* 0x6D2B79F5, the Mulberry32 increment
INCREMENT == [hi |-> 27947, lo |-> 31221]

\* this.seed += 0x6D2B79F5 : a JavaScript number addition, not wrapped
SeedAdvance(seed) ==
    LET s == seed.lo + INCREMENT.lo
    IN  [hi |-> seed.hi + INCREMENT.hi + s \div H16, lo |-> s % H16]

\* t = Math.imul(t ^ (t >>> 15), t | 1)
Mix1(t) ==
    CHOOSE r \in {Imul(a, b) : a \in {WXor(t, WShr(t, 15))}, b \in {WOrSmall(t, 1)}} : TRUE

\* t ^= t + Math.imul(t ^ (t >>> 7), t | 61)
Mix2(t) ==
    CHOOSE r \in {WXor(t, WAdd(t, m)) :
                     m \in {Imul(a, b) : a \in {WXor(t, WShr(t, 7))}, b \in {WOrSmall(t, 61)}}} :
        TRUE

\* (t ^ (t >>> 14)) >>> 0
Mix3Signed(t) ==
    CHOOSE r \in {[hi |-> IF w.hi >= H16 \div 2 THEN w.hi - H16 ELSE w.hi, lo |-> w.lo] :
                     w \in {WXor(t, WShr(t, 14))}} : TRUE
Mix3(t) == WXor(t, WShr(t, 14))

\* the 32-bit integer random() divides by 4294967296, from let t = this.seed
Mix(seedAfter) ==
    CHOOSE r \in {Mix3(t2) : t2 \in {Mix2(t1) : t1 \in {Mix1(t0) : t0 \in {ToUint32(seedAfter)}}}} :
        TRUE

\* the stream state after the addition, with the numerator k of the result k / 2^32
Drawn(s) == [seed |-> s, k |-> Mix(s)]

\* random(): the new stream state and the numerator k
Random(seed) == CHOOSE r \in {Drawn(s) : s \in {SeedAdvance(seed)}} : TRUE

\* floor(k * d / 2^32) for a 32-bit k and 0 <= d < 2^16: the real product
\* random() * d truncated to an integer, computed exactly
ScaleFloor(k, d) ==
    LET p == Mul16(k.hi, d)
        q == Mul16(k.lo, d)
    IN  p.hi + (p.lo + q.hi) \div H16

\* r * (max - min) + min for the draw r, truncated towards min
Scaled(r, min, max) == [seed |-> r.seed, k |-> r.k, v |-> ScaleFloor(r.k, max - min) + min]

\* randFloat(min, max) with min, max in thousandths; the result in thousandths,
\* and the new stream state
RandFloat(seed, min, max) == CHOOSE v \in {Scaled(r, min, max) : r \in {Random(seed)}} : TRUE

\* randInt(min, max) for integers min < max: Math.floor(random() * (max - min) + min)
RandInt(seed, min, max) == CHOOSE v \in {Scaled(r, min, max) : r \in {Random(seed)}} : TRUE

\* PLACEMENT_SEED of getPlacementPrng
PLACEMENT_SEED == 54321

\* bounds of the stream model
MaxClock == 1
MaxCalls == 2

Streams == {1, 2}

\* Date.now() at clock = 0 (about 1.7e12 ms), in halves
EPOCH == [hi |-> 25939941, lo |-> 26624]

DateNow(c) == [hi |-> EPOCH.hi, lo |-> EPOCH.lo + c]

\* the argument of new SeededRandom(seed)
SeedArgs ==
    {[kind |-> "number", n |-> n] : n \in {0, PLACEMENT_SEED}}
        \cup {[kind |-> "undefined", n |-> 0], [kind |-> "null", n |-> 0]}

NotConstructed == [kind |-> "none", n |-> 0]

Explicit(arg) == arg.kind = "number"

\* the constructor's seed: the argument, or Date.now() when it is undefined or null
FalsySeedIsMissing(arg, c) ==
    IF arg.kind \in {"undefined", "null"} \/ arg.n = 0 THEN DateNow(c) ELSE Num(arg.n)
ConstructorSeed(arg, c) ==
    IF arg.kind \in {"undefined", "null"} THEN DateNow(c) ELSE Num(arg.n)

\* the calls of the stream's interface, with the arguments tried
\* (randFloat in thousandths, randInt in integers)
Calls ==
    {[op |-> "random", min |-> 0, max |-> 1000],
     [op |-> "randFloat", min |-> -20000, max |-> 20000],
     [op |-> "randInt", min |-> 0, max |-> 3]}

\* the result of one call on a stream in state seed
CallResult(seed, call) ==
    CASE call.op = "random" ->
            CHOOSE v \in {Scaled(r, 0, 1000) : r \in {Random(seed)}} : TRUE
      [] call.op = "randFloat" -> RandFloat(seed, call.min, call.max)
      [] call.op = "randInt" -> RandInt(seed, call.min, call.max)

RandomInit ==
    /\ clock = 0
    /\ streams = [s \in Streams |->
                    [arg |-> NotConstructed, seed |-> Num(0), calls |-> <<>>, outs |-> <<>>]]

\* new SeededRandom(arg); the second stream is constructed after the first
Construct(s, arg) ==
    /\ streams[s].arg = NotConstructed
    /\ s = 2 => streams[1].arg # NotConstructed
    /\ streams' = [streams EXCEPT ![s] =
                      [arg |-> arg, seed |-> ConstructorSeed(arg, clock),
                       calls |-> <<>>, outs |-> <<>>]]
    /\ UNCHANGED <<clock, pvars, cvars, tvars, svars>>

\* getPlacementPrng(): the handle s receives new SeededRandom(PLACEMENT_SEED)
GetPlacementPrng(s) ==
    /\ streams[s].arg = NotConstructed
    /\ s = 2 => streams[1].arg # NotConstructed
    /\ \E arg \in {[kind |-> "getPlacementPrng", n |-> PLACEMENT_SEED]} :
           streams' = [streams EXCEPT ![s] =
                          [arg |-> arg, seed |-> ConstructorSeed(arg, clock),
                           calls |-> <<>>, outs |-> <<>>]]
    /\ UNCHANGED <<clock, pvars, cvars, tvars, svars>>

\* one call of random / randFloat / randInt on stream s; the second stream is
\* driven by the sequence of calls made on the first
Draw(s, call) ==
    /\ streams[s].arg # NotConstructed
    /\ Len(streams[s].calls) < MaxCalls
    /\ s = 2 => /\ Len(streams[2].calls) < Len(streams[1].calls)
                /\ call = streams[1].calls[Len(streams[2].calls) + 1]
    /\ \E r \in {CallResult(streams[s].seed, call)} :
           streams' = [streams EXCEPT ![s] =
                          [@ EXCEPT !.seed = r.seed,
                                    !.calls = Append(@, call),
                                    !.outs = Append(@, [k |-> r.k, v |-> r.v])]]
    /\ UNCHANGED <<clock, pvars, cvars, tvars, svars>>

\* the wall clock advances
ClockTick ==
    /\ clock < MaxClock
    /\ clock' = clock + 1
    /\ UNCHANGED <<streams, pvars, cvars, tvars, svars>>

RandomNext ==
    \/ \E s \in Streams, arg \in SeedArgs : Construct(s, arg)
    \/ \E s \in Streams : GetPlacementPrng(s)
    \/ \E s \in Streams, call \in Calls : Draw(s, call)
    \/ ClockTick

----------------------------------------------------------------------------
(* Placement passes: createInstancedTrees, createInstancedMushrooms        *)

TREE_COUNT == 200
SPREAD == 20
MIN_DISTANCE_FROM_CENTER_TREES == 5
MUSHROOM_COUNT == 150
MIN_DISTANCE_FROM_GATEWAY_CENTER == 1

\* bounds of the placement model
MaxSmallCount == 6      \* the totals 0..MaxSmallCount are tried beside the program's
MaxSeed == 1            \* the seeds 0..MaxSeed are tried beside PLACEMENT_SEED
MaxRejected == 30       \* candidates rejected in a row before the model stops looking

Milli(n) == n * 1000

\* 2 * Math.PI in thousandths
TwoPiMilli == 6283

\* the stream state after n more draws
RECURSIVE Skip(_, _)
Skip(seed, n) ==
    IF n = 0 THEN seed ELSE CHOOSE s \in {Skip(r.seed, n - 1) : r \in {Random(seed)}} : TRUE

\* a minimum distance no point of the [-SPREAD, SPREAD) square reaches
\* (its corners are at SPREAD * sqrt(2)), and one above the mushrooms' 0.9 * SPREAD
TooFarForTrees == (3 * Milli(SPREAD)) \div 2
TooFarForMushrooms == (19 * Milli(SPREAD)) \div 20

TreeArgs ==
    {[fn |-> "createInstancedTrees", count |-> n, SPREAD |-> Milli(SPREAD),
      minDistance |-> d] :
        n \in (0..MaxSmallCount) \cup {TREE_COUNT},
        d \in {Milli(MIN_DISTANCE_FROM_CENTER_TREES), TooFarForTrees}}

MushroomArgs ==
    {[fn |-> "createInstancedMushrooms", count |-> n, SPREAD |-> Milli(SPREAD),
      minDistance |-> d] :
        n \in (0..MaxSmallCount) \cup (MUSHROOM_COUNT..(MUSHROOM_COUNT + 2)),
        d \in {Milli(MIN_DISTANCE_FROM_GATEWAY_CENTER), TooFarForMushrooms}}

PlacementSeeds == {Num(n) : n \in (0..MaxSeed) \cup {PLACEMENT_SEED}}

\* new THREE.InstancedMesh(geometry, material, count): count slots, none written yet
NoMatrix == [x |-> 0, z |-> 0, scale |-> 0, rotation |-> 0]
InstancedMesh(count) ==
    [exists |-> TRUE, slots |-> [k \in 1..count |-> [writes |-> 0, m |-> NoMatrix]]]
NullMesh == [exists |-> FALSE, slots |-> <<>>]

\* mesh.setMatrixAt(index, matrix), index counted from 0
SetMatrixAtNext(mesh, index, matrix) ==
    IF index + 2 \in DOMAIN mesh.slots
    THEN [mesh EXCEPT !.slots[index + 2] = [writes |-> @.writes + 1, m |-> matrix]]
    ELSE mesh
SetMatrixAt(mesh, index, matrix) ==
    IF index + 1 \in DOMAIN mesh.slots
    THEN [mesh EXCEPT !.slots[index + 1] = [writes |-> @.writes + 1, m |-> matrix]]
    ELSE mesh

\* deciduousCount = Math.floor(TREE_COUNT / 2), coniferousCount = TREE_COUNT - deciduousCount
SplitDropsOdd(n) == [deciduous |-> n \div 2, coniferous |-> n \div 2]
SplitTrees(n) == [deciduous |-> n \div 2, coniferous |-> n - n \div 2]

\* counts = templates.map((_, index) => countPerVariety + (index < remaining ? 1 : 0))
CountsRoundedUp(n) == [k \in 1..3 |-> (n + 2) \div 3]
CountsRemainderLast(n) == [k \in 1..3 |-> n \div 3 + (IF 3 - k < n % 3 THEN 1 ELSE 0)]
SplitMushrooms(n) == [k \in 1..3 |-> n \div 3 + (IF k - 1 < n % 3 THEN 1 ELSE 0)]

\* instanceTypes: count copies of typeIndex + 1 for each variety, in order
RECURSIVE Repeat(_, _)
Repeat(v, n) == IF n <= 0 THEN <<>> ELSE <<v>> \o Repeat(v, n - 1)
TypeTags(counts) == Repeat(1, counts[1]) \o Repeat(2, counts[2]) \o Repeat(3, counts[3])

\* one pass of the do/while body: x then z from the stream
CandidateXZ(rx, rz) == [seed |-> rz.seed, x |-> rx.v, z |-> rz.v]
CandidateZ(rx, spread) ==
    CHOOSE c \in {CandidateXZ(rx, rz) : rz \in {RandFloat(rx.seed, 0 - spread, spread)}} : TRUE
Candidate(seed, spread) ==
    CHOOSE c \in {CandidateZ(rx, spread) : rx \in {RandFloat(seed, 0 - spread, spread)}} : TRUE

\* dist * dist for dist = Math.sqrt(x * x + z * z)
DistSq(c) == c.x * c.x + c.z * c.z

\* while (dist < MIN_DISTANCE_FROM_CENTER_TREES)
TreeRejectsFar(c, a) == DistSq(c) > a.minDistance * a.minDistance
TreeRejects(c, a) == DistSq(c) < a.minDistance * a.minDistance

\* while (dist < MIN_DISTANCE_FROM_GATEWAY_CENTER || dist > SPREAD * 0.9)
MushroomRejectsBeyondMin(c, a) ==
    LET far == (a.SPREAD * 9) \div 10
    IN  DistSq(c) > a.minDistance * a.minDistance \/ DistSq(c) > far * far
MushroomRejects(c, a) ==
    LET far == (a.SPREAD * 9) \div 10
    IN  DistSq(c) < a.minDistance * a.minDistance \/ DistSq(c) > far * far

\* after the loop: scaleVariation = randFloat(lo, hi), then rotation.y = random() * 2 pi;
\* dummy.matrix for the accepted candidate, and the stream afterwards
Matrix(c, rs, rr) ==
    [seed |-> rr.seed,
     m |-> [x |-> c.x, z |-> c.z, scale |-> rs.v, rotation |-> ScaleFloor(rr.k, TwoPiMilli)]]
Rotated(c, rs) == CHOOSE t \in {Matrix(c, rs, rr) : rr \in {Random(rs.seed)}} : TRUE
YawFirst(c, ry, lo, hi) ==
    CHOOSE t \in {[seed |-> rs.seed,
                    m |-> [x |-> c.x, z |-> c.z, scale |-> rs.v,
                           rotation |-> ScaleFloor(ry.k, TwoPiMilli)]] :
                     rs \in {RandFloat(ry.seed, lo, hi)}} : TRUE
TransformYawFirst(c, lo, hi) ==
    CHOOSE t \in {YawFirst(c, ry, lo, hi) : ry \in {Random(c.seed)}} : TRUE
Transform(c, lo, hi) == CHOOSE t \in {Rotated(c, rs) : rs \in {RandFloat(c.seed, lo, hi)}} : TRUE

NoTrees ==
    [deciduousCount |-> 0, coniferousCount |-> 0,
     deciduousTrunkInstances |-> NullMesh, deciduousFoliageInstances |-> NullMesh,
     coniferousTrunkInstances |-> NullMesh, coniferousFoliageInstances |-> NullMesh]

NoMushrooms ==
    [counts |-> <<0, 0, 0>>, capInstances |-> <<NullMesh, NullMesh, NullMesh>>,
     stemInstances |-> NullMesh, instanceTypes |-> <<>>, vIdx |-> <<0, 0, 0>>]

PlacementIdle ==
    /\ args = [fn |-> "none", count |-> 0, SPREAD |-> 0, minDistance |-> 0]
    /\ prng = Num(0)
    /\ pc = "idle"
    /\ i = 0
    /\ trees = NoTrees
    /\ mush = NoMushrooms
    /\ rejected = 0

\* a pass of the program's own size runs on getPlacementPrng()'s stream, the small
\* passes on every seed tried
PlacementInit ==
    /\ args \in TreeArgs \cup MushroomArgs
    /\ prng \in PlacementSeeds
    /\ args.count > MaxSmallCount => prng = Num(PLACEMENT_SEED)
    /\ pc = "start"
    /\ i = 0
    /\ trees = NoTrees
    /\ mush = NoMushrooms
    /\ rejected = 0

\* createInstancedTrees up to its first loop: the two geometry templates (three draws
\* and one draw), the counts, the four instanced meshes
TreeSetup ==
    /\ pc = "start" /\ args.fn = "createInstancedTrees"
    /\ LET n == SplitTrees(args.count)
       IN  trees' = [deciduousCount |-> n.deciduous, coniferousCount |-> n.coniferous,
                     deciduousTrunkInstances |-> InstancedMesh(n.deciduous),
                     deciduousFoliageInstances |-> InstancedMesh(n.deciduous),
                     coniferousTrunkInstances |-> InstancedMesh(n.coniferous),
                     coniferousFoliageInstances |-> InstancedMesh(n.coniferous)]
    /\ prng' = Skip(prng, 4)
    /\ pc' = "deciduous"
    /\ i' = 0
    /\ UNCHANGED <<args, mush, rejected, rvars, cvars, tvars, svars>>

\* a candidate of the deciduous do/while that the loop condition sends round again
DeciduousReject ==
    /\ pc = "deciduous" /\ i < trees.deciduousCount /\ rejected < MaxRejected
    /\ \E c \in {Candidate(prng, args.SPREAD)} :
           /\ TreeRejects(c, args)
           /\ prng' = c.seed
    /\ rejected' = rejected + 1
    /\ UNCHANGED <<args, pc, i, trees, mush, rvars, cvars, tvars, svars>>

\* a candidate that leaves the deciduous do/while, and the rest of the loop body
DeciduousPlace ==
    /\ pc = "deciduous" /\ i < trees.deciduousCount /\ rejected < MaxRejected
    /\ \E c \in {Candidate(prng, args.SPREAD)} : \E t \in {Transform(c, 800, 1200)} :
           /\ ~TreeRejects(c, args)
           /\ prng' = t.seed
           /\ trees' = [trees EXCEPT
                  !.deciduousTrunkInstances = SetMatrixAt(@, i, t.m),
                  !.deciduousFoliageInstances = SetMatrixAt(@, i, t.m)]
    /\ i' = i + 1
    /\ rejected' = 0
    /\ UNCHANGED <<args, pc, mush, rvars, cvars, tvars, svars>>

\* the deciduous for loop ends
DeciduousDone ==
    /\ pc = "deciduous" /\ i >= trees.deciduousCount
    /\ pc' = "coniferous"
    /\ i' = 0
    /\ UNCHANGED <<args, prng, trees, mush, rejected, rvars, cvars, tvars, svars>>

ConiferousReject ==
    /\ pc = "coniferous" /\ i < trees.coniferousCount /\ rejected < MaxRejected
    /\ \E c \in {Candidate(prng, args.SPREAD)} :
           /\ TreeRejects(c, args)
           /\ prng' = c.seed
    /\ rejected' = rejected + 1
    /\ UNCHANGED <<args, pc, i, trees, mush, rvars, cvars, tvars, svars>>

ConiferousPlace ==
    /\ pc = "coniferous" /\ i < trees.coniferousCount /\ rejected < MaxRejected
    /\ \E c \in {Candidate(prng, args.SPREAD)} : \E t \in {Transform(c, 700, 1100)} :
           /\ ~TreeRejects(c, args)
           /\ prng' = t.seed
           /\ trees' = [trees EXCEPT
                  !.coniferousTrunkInstances = SetMatrixAt(@, i, t.m),
                  !.coniferousFoliageInstances = SetMatrixAt(@, i, t.m)]
    /\ i' = i + 1
    /\ rejected' = 0
    /\ UNCHANGED <<args, pc, mush, rvars, cvars, tvars, svars>>

\* the coniferous for loop ends; the meshes are added to the scene
ConiferousDone ==
    /\ pc = "coniferous" /\ i >= trees.coniferousCount
    /\ pc' = "done"
    /\ UNCHANGED <<args, prng, i, trees, mush, rejected, rvars, cvars, tvars, svars>>

\* createInstancedMushrooms up to the shuffle: counts, cap meshes (none for a count
\* of 0), the stem mesh, the type tags in variety order
MushroomSetup ==
    /\ pc = "start" /\ args.fn = "createInstancedMushrooms"
    /\ LET counts == SplitMushrooms(args.count)
           tags == TypeTags(counts)
       IN  /\ mush' = [counts |-> counts,
                       capInstances |-> [k \in 1..3 |->
                            IF counts[k] > 0 THEN InstancedMesh(counts[k]) ELSE NullMesh],
                       stemInstances |-> InstancedMesh(args.count),
                       instanceTypes |-> tags,
                       vIdx |-> <<0, 0, 0>>]
           /\ i' = Len(tags) - 1
    /\ pc' = "shuffle"
    /\ UNCHANGED <<args, prng, trees, rejected, rvars, cvars, tvars, svars>>

\* one round of the Fisher-Yates loop: j = Math.floor(random() * (i + 1)), swap i and j
ShuffleStepOverwrites ==
    /\ pc = "shuffle" /\ i > 0
    /\ \E r \in {Random(prng)} : \E j \in {ScaleFloor(r.k, i + 1)} :
       LET t == mush.instanceTypes
       IN  /\ prng' = r.seed
           /\ mush' = [mush EXCEPT !.instanceTypes = [t EXCEPT ![i + 1] = t[j + 1]]]
    /\ i' = i - 1
    /\ UNCHANGED <<args, pc, trees, rejected, rvars, cvars, tvars, svars>>
ShuffleStep ==
    /\ pc = "shuffle" /\ i > 0
    /\ \E r \in {Random(prng)} : \E j \in {ScaleFloor(r.k, i + 1)} :
       LET t == mush.instanceTypes
       IN  /\ prng' = r.seed
           /\ mush' = [mush EXCEPT !.instanceTypes =
                          [t EXCEPT ![i + 1] = t[j + 1], ![j + 1] = t[i + 1]]]
    /\ i' = i - 1
    /\ UNCHANGED <<args, pc, trees, rejected, rvars, cvars, tvars, svars>>

\* the shuffle loop ends
ShuffleDone ==
    /\ pc = "shuffle" /\ i <= 0
    /\ pc' = "place"
    /\ i' = 0
    /\ UNCHANGED <<args, prng, trees, mush, rejected, rvars, cvars, tvars, svars>>

MushroomReject ==
    /\ pc = "place" /\ i < args.count /\ rejected < MaxRejected
    /\ \E c \in {Candidate(prng, args.SPREAD)} :
           /\ MushroomRejects(c, args)
           /\ prng' = c.seed
    /\ rejected' = rejected + 1
    /\ UNCHANGED <<args, pc, i, trees, mush, rvars, cvars, tvars, svars>>

\* an accepted candidate: the stem matrix at i, and the cap matrix at the next free
\* slot of the variety instanceTypes[i]
MushroomPlace ==
    /\ pc = "place" /\ i < args.count /\ rejected < MaxRejected
    /\ \E c \in {Candidate(prng, args.SPREAD)} : \E t \in {Transform(c, 500, 1500)} :
       LET mushroomType == mush.instanceTypes[i + 1]
           capped == /\ mush.capInstances[mushroomType].exists
                     /\ mush.vIdx[mushroomType] < mush.counts[mushroomType]
       IN  /\ ~MushroomRejects(c, args)
           /\ prng' = t.seed
           /\ mush' = [mush EXCEPT
                  !.stemInstances = SetMatrixAt(@, i, t.m),
                  !.capInstances[mushroomType] =
                      IF capped THEN SetMatrixAt(@, mush.vIdx[mushroomType], t.m) ELSE @,
                  !.vIdx[mushroomType] = IF capped THEN @ + 1 ELSE @]
    /\ i' = i + 1
    /\ rejected' = 0
    /\ UNCHANGED <<args, pc, trees, rvars, cvars, tvars, svars>>

\* the placement loop ends
MushroomDone ==
    /\ pc = "place" /\ i >= args.count
    /\ pc' = "done"
    /\ UNCHANGED <<args, prng, i, trees, mush, rejected, rvars, cvars, tvars, svars>>

PlacementNext ==
    \/ TreeSetup
    \/ DeciduousReject
    \/ DeciduousPlace
    \/ DeciduousDone
    \/ ConiferousReject
    \/ ConiferousPlace
    \/ ConiferousDone
    \/ MushroomSetup
    \/ ShuffleStep
    \/ ShuffleDone
    \/ MushroomReject
    \/ MushroomPlace
    \/ MushroomDone

----------------------------------------------------------------------------
(* Terrain noise: pseudoRandom, interpolatedNoise                          *)

\* a natural number of any size: its 15-bit limbs, lowest first, no leading zero
Limb == 2^15

RECURSIVE BigTrim(_)
BigTrim(a) ==
    IF a = <<>> THEN a
    ELSE IF a[Len(a)] = 0 THEN BigTrim(SubSeq(a, 1, Len(a) - 1)) ELSE a

RECURSIVE BigFromNat(_)
BigFromNat(k) == IF k = 0 THEN <<>> ELSE <<k % Limb>> \o BigFromNat(k \div Limb)

RECURSIVE BigToNat(_)
BigToNat(a) == IF a = <<>> THEN 0 ELSE Head(a) + Limb * BigToNat(Tail(a))

RECURSIVE BigAddC(_, _, _)
BigAddC(a, b, c) ==
    IF a = <<>> /\ b = <<>> THEN BigFromNat(c)
    ELSE LET x == IF a = <<>> THEN 0 ELSE Head(a)
             y == IF b = <<>> THEN 0 ELSE Head(b)
             s == x + y + c
         IN  <<s % Limb>> \o BigAddC(IF a = <<>> THEN a ELSE Tail(a),
                                     IF b = <<>> THEN b ELSE Tail(b), s \div Limb)

BigAdd(a, b) == BigAddC(a, b, 0)

\* a - b for a >= b
RECURSIVE BigSubB(_, _, _)
BigSubB(a, b, c) ==
    IF a = <<>> THEN a
    ELSE LET d == Head(a) - (IF b = <<>> THEN 0 ELSE Head(b)) - c
         IN  <<d % Limb>> \o BigSubB(Tail(a), IF b = <<>> THEN b ELSE Tail(b),
                                     IF d < 0 THEN 1 ELSE 0)

BigSub(a, b) == BigTrim(BigSubB(a, b, 0))

RECURSIVE BigLess(_, _)
BigLess(a, b) ==
    IF Len(a) # Len(b) THEN Len(a) < Len(b)
    ELSE IF a = <<>> THEN FALSE
    ELSE IF a[Len(a)] # b[Len(b)] THEN a[Len(a)] < b[Len(b)]
    ELSE BigLess(SubSeq(a, 1, Len(a) - 1), SubSeq(b, 1, Len(b) - 1))

\* a * k + c for a limb k
RECURSIVE BigMulSmall(_, _, _)
BigMulSmall(a, k, c) ==
    IF a = <<>> THEN BigFromNat(c)
    ELSE LET s == Head(a) * k + c
         IN  <<s % Limb>> \o BigMulSmall(Tail(a), k, s \div Limb)

RECURSIVE BigMul(_, _)
BigMul(a, b) ==
    IF a = <<>> \/ b = <<>> THEN <<>>
    ELSE BigTrim(BigAdd(BigMulSmall(a, Head(b), 0), <<0>> \o BigMul(a, Tail(b))))

\* the number of significant bits
RECURSIVE BitLen(_)
BitLen(k) == IF k = 0 THEN 0 ELSE 1 + BitLen(k \div 2)

BigBitLen(a) == IF a = <<>> THEN 0 ELSE 15 * (Len(a) - 1) + BitLen(a[Len(a)])

\* a * 2^s
BigShl(a, s) ==
    IF a = <<>> THEN a
    ELSE [k \in 1..(s \div 15) |-> 0] \o BigMulSmall(a, 2^(s % 15), 0)

\* floor(a / 2^s)
BigShr(a, s) ==
    LET k == s \div 15
        j == s % 15
        d == IF k >= Len(a) THEN <<>> ELSE SubSeq(a, k + 1, Len(a))
    IN  BigTrim([n \in 1..Len(d) |->
                    (d[n] \div 2^j)
                    + (IF n < Len(d) THEN (d[n + 1] % 2^j) * 2^(15 - j) ELSE 0)])

\* a mod 2^s
BigLow(a, s) ==
    LET k == s \div 15
        j == s % 15
    IN  IF k >= Len(a) THEN a
        ELSE BigTrim(SubSeq(a, 1, k) \o <<a[k + 1] % 2^j>>)

\* the nearest natural with at most 53 significant bits, ties to the even one:
\* the rounding of every double operation
RoundToDouble(a) ==
    IF BigBitLen(a) <= 53 THEN a
    ELSE LET s == BigBitLen(a) - 53
             q == BigShr(a, s)
             r == BigLow(a, s)
             half == BigShl(<<1>>, s - 1)
             up == BigLess(half, r) \/ (r = half /\ q[1] % 2 = 1)
         IN  BigShl(IF up THEN BigAdd(q, <<1>>) ELSE q, s)

\* a double that holds an integer, as sign and magnitude
Dbl(k) == [neg |-> FALSE, mag |-> BigFromNat(k)]

DblMul(x, y) == [neg |-> x.neg # y.neg, mag |-> RoundToDouble(BigMul(x.mag, y.mag))]

DblAdd(x, y) ==
    IF x.neg = y.neg THEN [neg |-> x.neg, mag |-> RoundToDouble(BigAdd(x.mag, y.mag))]
    ELSE IF BigLess(x.mag, y.mag)
         THEN [neg |-> y.neg, mag |-> RoundToDouble(BigSub(y.mag, x.mag))]
         ELSE [neg |-> x.neg, mag |-> RoundToDouble(BigSub(x.mag, y.mag))]

\* ToInt32 of a small integer, as a word in two's complement
Int32(m) ==
    IF m >= 0 THEN Num(m)
    ELSE [hi |-> H16 - 1 - ((0 - m - 1) \div H16), lo |-> H16 - 1 - ((0 - m - 1) % H16)]

\* a << k for 0 < k < 16
WShl(a, k) ==
    [hi |-> ((a.hi % 2^(16 - k)) * 2^k + a.lo \div 2^(16 - k)) % H16,
     lo |-> (a.lo % 2^(16 - k)) * 2^k]

\* the int32 result of a bitwise operator, read back as a number
WordToDbl(w) ==
    LET neg == w.hi >= 2^15
        m == IF neg THEN WAdd([hi |-> H16 - 1 - w.hi, lo |-> H16 - 1 - w.lo], Num(1)) ELSE w
    IN  [neg |-> neg,
         mag |-> BigTrim(<<m.lo % Limb, (m.lo \div Limb) + (m.hi % 2^14) * 2, m.hi \div 2^14>>)]

\* n & 0x7fffffff: the low 31 bits of ToInt32(n)
Mask31(d) ==
    LET low == BigToNat(BigLow(d.mag, 31))
    IN  IF d.neg /\ low > 0 THEN (2147483647 - low) + 1 ELSE low

\* pseudoRandom(ix, iz), the masked integer n of its last line
PseudoRandomN(ix, iz) ==
    LET w == Int32(ix + iz * 57)
        n == WordToDbl(WXor(WShl(w, 13), w))
        inner == DblAdd(DblMul(DblMul(n, n), Dbl(15731)), Dbl(789221))
    IN  Mask31(DblAdd(DblMul(n, inner), Dbl(1376312589)))

\* the divisor of pseudoRandom's last line
HashDivisor == 1073741823

\* noise values are kept in millionths
Micro == 1000000

\* floor(n * Micro / HashDivisor)
HashQuotient(n) ==
    LET scaled == BigMul(BigFromNat(n), BigFromNat(Micro))
        q == BigToNat(BigShr(scaled, 30))
    IN  IF BigLess(scaled, BigMul(BigFromNat(q + 1), BigFromNat(HashDivisor)))
        THEN q ELSE q + 1

\* 1.0 - n / 1073741823.0, in millionths
HashForgetsOne(n) == 0 - HashQuotient(n)
HashValue(n) == Micro - HashQuotient(n)

\* the lattice points around the gate that the spawned mushrooms fly over (they
\* leave the portal towards negative z): ix in -NearLattice..NearLattice and
\* iz in -FarLattice..NearLattice
NearLattice == 8
FarLattice == 26

\* pseudoRandom on those points, hashed once
NearHashes ==
    [ix \in (0 - NearLattice)..NearLattice |->
        [iz \in (0 - FarLattice)..NearLattice |-> HashValue(PseudoRandomN(ix, iz))]]

\* pseudoRandom(ix, iz)
PseudoRandom(ix, iz) ==
    IF ix \in (0 - NearLattice)..NearLattice /\ iz \in (0 - FarLattice)..NearLattice
    THEN NearHashes[ix][iz]
    ELSE HashValue(PseudoRandomN(ix, iz))

\* TERRAIN_BASE_FREQUENCY = 0.04, as a fraction
TERRAIN_BASE_FREQUENCY == [num |-> 1, den |-> 25]

\* fracX * fracX * (3 - 2 * fracX), for a fraction in thousandths
SmoothFrac(frac) == (frac * frac * (3000 - 2 * frac)) \div 1000000

\* THREE.MathUtils.lerp(x, y, t) = (1 - t) * x + t * y, t in thousandths
Lerp(x, y, t) == ((1000 - t) * x + t * y) \div 1000

\* the blend of the four lattice values around cell (intX, intZ) at the
\* fractions (fracX, fracZ) of the cell
NoiseInCellFarNeighbour(intX, intZ, fracX, fracZ) ==
    CHOOSE r \in
      {Lerp(Lerp(v[1], v[2], SmoothFrac(fracX)), Lerp(v[3], v[4], SmoothFrac(fracX)),
            SmoothFrac(fracZ)) :
         v \in {[k \in 1..4 |->
                   PseudoRandom(intX + 2 * ((k - 1) % 2), intZ + ((k - 1) \div 2))]}} : TRUE
NoiseInCell(intX, intZ, fracX, fracZ) ==
    CHOOSE r \in
      {Lerp(Lerp(v[1], v[2], SmoothFrac(fracX)), Lerp(v[3], v[4], SmoothFrac(fracX)),
            SmoothFrac(fracZ)) :
         v \in {[k \in 1..4 |->
                   PseudoRandom(intX + ((k - 1) % 2), intZ + ((k - 1) \div 2))]}} : TRUE

\* x * n = q * d + r with 0 <= r < d, for naturals x, n and d > 0, by halving n
\* (no intermediate value reaches 3 * d): the step from h, the result for
\* n \div 2, to the result for n
MulDivDouble(h, x, n, d) ==
    [q |-> 2 * h.q + (IF n % 2 = 1 THEN x \div d ELSE 0)
             + (2 * h.r + (IF n % 2 = 1 THEN x % d ELSE 0)) \div d,
     r |-> (2 * h.r + (IF n % 2 = 1 THEN x % d ELSE 0)) % d]

RECURSIVE MulDivNat(_, _, _)
MulDivNat(x, n, d) ==
    IF n = 0 THEN [q |-> 0, r |-> 0]
    ELSE CHOOSE r \in {MulDivDouble(h, x, n, d) : h \in {MulDivNat(x, n \div 2, d)}} : TRUE

\* the same for an integer x: q = floor(x * n / d); the product is taken directly
\* where it fits in 31 bits
MulDiv(x, n, d) ==
    IF n = 0 \/ (x >= 0 /\ x <= 2147483647 \div n)
             \/ (x < 0 /\ 0 - x <= 2147483647 \div n)
    THEN [q |-> (x * n) \div d, r |-> (x * n) % d]
    ELSE IF x >= 0 THEN MulDivNat(x, n, d)
    ELSE CHOOSE r \in {IF m.r = 0 THEN [q |-> 0 - m.q, r |-> 0]
                                  ELSE [q |-> 0 - m.q - 1, r |-> d - m.r] :
                          m \in {MulDivNat(0 - x, n, d)}} : TRUE

\* Math.floor(x * frequency) and the fraction left, in thousandths, for x in
\* thousandths
ScaledInt(x, frequency) == MulDiv(x, frequency.num, 1000 * frequency.den).q
ScaledFrac(x, frequency) ==
    MulDiv(x, frequency.num, 1000 * frequency.den).r \div frequency.den

\* interpolatedNoise(x, z, frequency)
InterpolatedNoise(x, z, frequency) ==
    CHOOSE r \in {NoiseInCell(intX, intZ, fracX, fracZ) :
                     intX \in {ScaledInt(x, frequency)}, intZ \in {ScaledInt(z, frequency)},
                     fracX \in {ScaledFrac(x, frequency)},
                     fracZ \in {ScaledFrac(z, frequency)}} : TRUE

TERRAIN_OCTAVES == 5
TERRAIN_PERSISTENCE == [num |-> 9, den |-> 20]
TERRAIN_LACUNARITY == [num |-> 21, den |-> 10]
TERRAIN_MAX_HEIGHT == [num |-> 7, den |-> 2]

\* amplitude 1.0: amplitudes are whole numbers of TERRAIN_PERSISTENCE.den^-4
UnitAmplitude == 160000

\* getTerrainHeight: the loop from the given octave on, with noise values in thousandths;
\* returns totalHeight and normalizationFactor after the last octave
RECURSIVE Octaves(_, _, _, _, _, _, _)
Octaves(worldX, worldZ, octave, currentFrequency, currentAmplitude, totalHeight, normalizationFactor) ==
    IF octave >= TERRAIN_OCTAVES
    THEN [totalHeight |-> totalHeight, normalizationFactor |-> normalizationFactor]
    ELSE CHOOSE r \in
           {Octaves(worldX, worldZ, octave + 1, frequency, amplitude, total, factor) :
              frequency \in {[num |-> currentFrequency.num * TERRAIN_LACUNARITY.num,
                              den |-> currentFrequency.den * TERRAIN_LACUNARITY.den]},
              amplitude \in {(currentAmplitude * TERRAIN_PERSISTENCE.num)
                                \div TERRAIN_PERSISTENCE.den},
              total \in {totalHeight
                           + (InterpolatedNoise(worldX, worldZ, currentFrequency) \div 1000)
                               * currentAmplitude},
              factor \in {normalizationFactor + currentAmplitude}} : TRUE

\* getTerrainHeight(worldX, worldZ), arguments and result in thousandths
GetTerrainHeight(worldX, worldZ) ==
    CHOOSE height \in
      {(o.totalHeight * TERRAIN_MAX_HEIGHT.num)
           \div (o.normalizationFactor * TERRAIN_MAX_HEIGHT.den) :
         o \in {Octaves(worldX, worldZ, 0, TERRAIN_BASE_FREQUENCY, UnitAmplitude, 0, 0)}} : TRUE

\* the lattice coordinates tried: what the five octaves reach on the 100 x 100
\* ground
MaxLattice == 40
Lattice == (0 - MaxLattice)..MaxLattice

\* the world coordinates tried, in thousandths: every CellParts-th of a cell of
\* the base frequency, across the ground
CellParts == 4
GroundCells == 2
NoisePoints ==
    {(k * 1000 * TERRAIN_BASE_FREQUENCY.den) \div (CellParts * TERRAIN_BASE_FREQUENCY.num) :
        k \in (0 - GroundCells * CellParts)..(GroundCells * CellParts)}

HashCalls == [fn : {"pseudoRandom"}, ix : Lattice, iz : Lattice, returned : {FALSE}]
NoiseCalls ==
    [fn : {"interpolatedNoise"}, x : NoisePoints, z : NoisePoints,
     frequency : {TERRAIN_BASE_FREQUENCY}, returned : {FALSE}]

\* no terrain call under test
TerrainIdle ==
    /\ noiseCall = [fn |-> "none", returned |-> FALSE]
    /\ noiseValue = 0

\* one terrain call about to be made
TerrainInit ==
    /\ noiseCall \in HashCalls \cup NoiseCalls
    /\ noiseValue = 0

HashCall ==
    /\ noiseCall.fn = "pseudoRandom"
    /\ ~noiseCall.returned
    /\ noiseCall' = [noiseCall EXCEPT !.returned = TRUE]
    /\ noiseValue' = PseudoRandom(noiseCall.ix, noiseCall.iz)
    /\ UNCHANGED <<rvars, pvars, cvars, svars>>

NoiseCall ==
    /\ noiseCall.fn = "interpolatedNoise"
    /\ ~noiseCall.returned
    /\ noiseCall' = [noiseCall EXCEPT !.returned = TRUE]
    /\ noiseValue' = InterpolatedNoise(noiseCall.x, noiseCall.z, noiseCall.frequency)
    /\ UNCHANGED <<rvars, pvars, cvars, svars>>

TerrainNext == HashCall \/ NoiseCall

----------------------------------------------------------------------------
(* Spawned mushrooms: spawnMushroom, onPointerDown and the mushroom loop of *)
(* animate (main.js)                                                       *)

MAX_SPAWNED_MUSHROOMS == 50
GRAVITY == 15

\* clock ticks per second: the resolution of clock.getDelta() in the model
TicksPerSecond == 5
\* pointer events handled in a run
MaxPointerEvents == 1
\* frames rendered in a run that counts them
MaxFrames == 5

Vec(x, y, z) == [x |-> x, y |-> y, z |-> z]
VecAdd(a, b) == Vec(a.x + b.x, a.y + b.y, a.z + b.z)

\* v.clone().multiplyScalar(delta), delta in ticks
MultiplyScalar(v, delta) ==
    Vec((v.x * delta) \div TicksPerSecond, (v.y * delta) \div TicksPerSecond,
        (v.z * delta) \div TicksPerSecond)

\* the bounding boxes tried for the loaded gate model at the origin: min and max
\* corners, in thousandths (the model file fixes the box)
GateBoxes ==
    {[min |-> Vec(-1500, 0, -500), max |-> Vec(1500, 3000, 500)],
     [min |-> Vec(-1200, -200, -300), max |-> Vec(1800, 2800, 900)]}

\* getTerrainHeight(mushroomGate.position.x, mushroomGate.position.z) at the origin
GateGround == GetTerrainHeight(0, 0)

\* portalMesh.position for a gate with bounding box `box`, set on the terrain at
\* the origin: the centre of the raised box, lowered by 0.20 of the portal height
\* (0.65 of the box height) and pulled forward by 0.1 of the box depth
PortalPosition(box) ==
    LET sizeY == box.max.y - box.min.y
        sizeZ == box.max.z - box.min.z
        groundOffsetAtGate == GateGround
        worldCenter == Vec((box.min.x + box.max.x) \div 2,
                           groundOffsetAtGate + sizeY \div 2,
                           (box.min.z + box.max.z) \div 2)
        portalHeight == (sizeY * 65) \div 100
        yOffset == (portalHeight * 20) \div 100
        zOffset == sizeZ \div 10
    IN  [worldCenter EXCEPT !.y = @ - yOffset, !.z = @ - zOffset]

NoPortal == [exists |-> FALSE, position |-> Vec(0, 0, 0)]

\* the values of Math.random() tried by one spawnMushroom call, in thousandths, in
\* call order: template, velocity x y z, rotationSpeed x y z
LaunchDraws ==
    {<<0, 0, 0, 0, 0, 0, 0>>, <<999, 999, 999, 999, 999, 999, 999>>}

\* the mesh created by the next spawn: Groups are numbered in creation order
NextMesh(list) == IF list = <<>> THEN 1 ELSE list[Len(list)].mesh + 1

\* the mushroomData record pushed by spawnMushroom
NewMushroom(mesh, draws, templates, portal) ==
    [mesh |-> mesh,
     template |-> (draws[1] * templates) \div 1000,
     position |-> VecAdd(portal, Vec(0, 500, 0)),
     rotation |-> Vec(0, 0, 0),
     velocity |-> Vec((draws[2] - 500) * 4, draws[3] * 3 + 7000, draws[4] * (0 - 3) - 5000),
     rotationSpeed |-> Vec((draws[5] - 500) * 8, (draws[6] - 500) * 8, (draws[7] - 500) * 8),
     airborne |-> TRUE]

\* spawnMushroom(): the array afterwards
SpawnKeepsOldest(list, draws, templates, portal) ==
    LET kept == IF Len(list) >= MAX_SPAWNED_MUSHROOMS THEN SubSeq(list, 1, Len(list) - 1) ELSE list
    IN  IF templates = 0 THEN kept
        ELSE IF ~portal.exists THEN kept
        ELSE Append(kept, NewMushroom(NextMesh(list), draws, templates, portal.position))
SpawnMushroom(list, draws, templates, portal) ==
    LET kept == IF Len(list) >= MAX_SPAWNED_MUSHROOMS THEN Tail(list) ELSE list
    IN  IF templates = 0 THEN kept
        ELSE IF ~portal.exists THEN kept
        ELSE Append(kept, NewMushroom(NextMesh(list), draws, templates, portal.position))

\* animate(): the ground collision of a falling mushroom that has been moved to
\* `position`, where the terrain is at terrainHeight
CollisionLeftBelow(m, velocity, position, rotation, terrainHeight) ==
    IF position.y < terrainHeight
    THEN [m EXCEPT !.velocity = velocity,
                   !.position = position,
                   !.rotation = Vec(0, rotation.y, 0),
                   !.airborne = FALSE]
    ELSE [m EXCEPT !.velocity = velocity, !.position = position, !.rotation = rotation]
Collision(m, velocity, position, rotation, terrainHeight) ==
    IF position.y < terrainHeight
    THEN [m EXCEPT !.velocity = velocity,
                   !.position = [position EXCEPT !.y = terrainHeight],
                   !.rotation = Vec(0, rotation.y, 0),
                   !.airborne = FALSE]
    ELSE [m EXCEPT !.velocity = velocity, !.position = position, !.rotation = rotation]

\* animate(): the forEach body of an airborne mushroom after the move (the terrain
\* height is asked for only while falling)
Moved(m, velocity, position, rotation) ==
    IF velocity.y < 0
    THEN CHOOSE r \in {Collision(m, velocity, position, rotation, terrainHeight) :
                          terrainHeight \in {GetTerrainHeight(position.x, position.z)}} : TRUE
    ELSE [m EXCEPT !.velocity = velocity, !.position = position, !.rotation = rotation]

\* animate(): the forEach body of an airborne mushroom after gravity
Pulled(m, delta, velocity) ==
    CHOOSE r \in {Moved(m, velocity, position, rotation) :
                     position \in {VecAdd(m.position, MultiplyScalar(velocity, delta))},
                     rotation \in {VecAdd(m.rotation, MultiplyScalar(m.rotationSpeed, delta))}} :
        TRUE

\* animate(): one mushroomData after the frame's forEach body, delta in ticks
MushroomStep(m, delta) ==
    IF ~m.airborne THEN m
    ELSE CHOOSE r \in {Pulled(m, delta, velocity) :
                          velocity \in {[m.velocity EXCEPT
                                           !.y = @ - (GRAVITY * 1000 * delta) \div TicksPerSecond]}} :
             TRUE

\* animate(): the spawnedMushrooms.forEach
MushroomsStepButLast(list, delta) ==
    [k \in DOMAIN list |-> IF k = Len(list) THEN list[k] ELSE MushroomStep(list[k], delta)]
MushroomsStep(list, delta) == [k \in DOMAIN list |-> MushroomStep(list[k], delta)]

\* nothing loaded, nothing spawned
SpawnIdle ==
    /\ spawnedMushrooms = <<>>
    /\ mushroomTemplates = 0
    /\ portalMesh = NoPortal
    /\ pointerEvents = 0
    /\ frames = 0

----------------------------------------------------------------------------
(* Day/night cycle: main.js (animate, toggle click handler, model-load     *)
(* callback) and the toggle wiring of app.js                               *)

LIGHT_ORBIT_RADIUS == 25
DAY_CYCLE_DURATION == 60
NIGHT_CYCLE_DURATION == 45

\* the largest frame delta tried, in ticks (longer than a whole phase)
MaxDelta == 400

\* progress 1.0 in progress units, chosen so that one tick advances either
\* phase by a whole number of units (delta / duration)
ProgressOne == 180 * TicksPerSecond
DayStep == ProgressOne \div (DAY_CYCLE_DURATION * TicksPerSecond)
NightStep == ProgressOne \div (NIGHT_CYCLE_DURATION * TicksPerSecond)

\* the frame deltas tried, in ticks
Deltas == {0, 1, 15, 100, MaxDelta}

\* the per-phase settings records (colours as hex strings, fog as near/far)
daySettings ==
    [background |-> "87CEEB", fog |-> "cce0ff/10/50",
     ambientLightIntensity |-> 5, directionalLightIntensity |-> 8,
     directionalLightColor |-> "ffffff", groundColor |-> "8FBC8F",
     trunkColor |-> "A0522D", deciduousFoliageColor |-> "556B2F",
     coniferousFoliageColor |-> "228B22"]

nightSettings ==
    [background |-> "0a0a20", fog |-> "0a0a20/25/70",
     ambientLightIntensity |-> 5, directionalLightIntensity |-> 8,
     directionalLightColor |-> "c0c0ff", groundColor |-> "6A7F6A",
     trunkColor |-> "A06A35", deciduousFoliageColor |-> "4E8B57",
     coniferousFoliageColor |-> "208420"]

\* the scene properties after init(): lights and materials are created with the
\* day values, background and fog are not set until applySceneState runs
InitialSceneState ==
    [daySettings EXCEPT !.background = "null", !.fog = "null"]

\* sin(pi * u / ProgressOne) in thousandths for 0 <= u <= ProgressOne
\* (Math.sin by Bhaskara's rational approximation, exact at 0, 1/2 and 1)
SinPiMilli(u) ==
    LET w == u * (ProgressOne - u)
    IN  (16 * w) \div ((5 * ProgressOne * ProgressOne - 4 * w) \div 1000)

\* cos(pi * u / ProgressOne) in thousandths for 0 <= u <= ProgressOne
CosPiMilli(u) ==
    IF 2 * u <= ProgressOne
    THEN SinPiMilli(u + ProgressOne \div 2)
    ELSE 0 - SinPiMilli(u - ProgressOne \div 2)

\* the position written by directionalLight.position.set(z, y, x), in thousandths,
\* for alpha = (1 - progress) * pi
CelestialPositionUnmapped(progress) ==
    LET x == LIGHT_ORBIT_RADIUS * (0 - CosPiMilli(progress))
        y == LIGHT_ORBIT_RADIUS * SinPiMilli(progress)
        z == LIGHT_ORBIT_RADIUS * SinPiMilli(progress)
    IN  [x |-> x, y |-> y, z |-> z]
CelestialPositionCosHeight(progress) ==
    LET x == LIGHT_ORBIT_RADIUS * SinPiMilli(progress)
        y == LIGHT_ORBIT_RADIUS * (0 - CosPiMilli(progress))
        z == LIGHT_ORBIT_RADIUS * SinPiMilli(progress)
    IN  [x |-> z, y |-> y, z |-> x]
CelestialPosition(progress) ==
    LET x == LIGHT_ORBIT_RADIUS * (0 - CosPiMilli(progress))    \* R cos(alpha)
        y == LIGHT_ORBIT_RADIUS * SinPiMilli(progress)          \* R sin(alpha)
        z == LIGHT_ORBIT_RADIUS * SinPiMilli(progress)          \* R cos(alpha - pi/2)
    IN  [x |-> z, y |-> y, z |-> x]

\* y > -0.1, in thousandths
AboveHorizon(pos) == pos.y > -100

\* updateCelestialBodyPosition(progress, isDay) with the global isDaytime = phase:
\* the light position and the two meshes afterwards (the updated mesh is moved to
\* the light position; a mesh is kept as its visible flag)
UpdateIgnoringPhase(progress, isDay, phase, sun, moon) ==
    LET pos == CelestialPosition(progress)
        updated == [visible |-> AboveHorizon(pos)]
    IN  [light |-> pos,
         sun |-> IF isDay THEN updated ELSE [sun EXCEPT !.visible = FALSE],
         moon |-> IF isDay THEN [moon EXCEPT !.visible = FALSE] ELSE updated]
UpdateCelestialBodyPosition(progress, isDay, phase, sun, moon) ==
    LET pos == CelestialPosition(progress)
        updated == [visible |-> (isDay = phase) /\ AboveHorizon(pos)]
    IN  [light |-> pos,
         sun |-> IF isDay THEN updated ELSE [sun EXCEPT !.visible = FALSE],
         moon |-> IF isDay THEN [moon EXCEPT !.visible = FALSE] ELSE updated]

Origin == [x |-> 0, y |-> 0, z |-> 0]

ButtonText(phase) == IF phase THEN "Switch to Night" ELSE "Switch to Day"

ActiveProgress == IF isDaytime THEN dayTimeProgress ELSE nightTimeProgress

Event(name, delta) ==
    [event |-> name, delta |-> delta, isDaytime |-> isDaytime, progress |-> ActiveProgress]

\* applySceneState(settings, progress): the settings overwrite the scene properties,
\* and the celestial bodies are updated for the current phase and its progress
ApplyCelestialOnly(settings, phase, dayP, nightP) ==
    LET c == UpdateCelestialBodyPosition(IF phase THEN dayP ELSE nightP, phase, phase,
                                         sunMesh, moonMesh)
    IN  /\ sceneState' = sceneState
        /\ lightPosition' = c.light
        /\ sunMesh' = c.sun
        /\ moonMesh' = c.moon
ApplySceneState(settings, phase, dayP, nightP) ==
    LET c == UpdateCelestialBodyPosition(IF phase THEN dayP ELSE nightP, phase, phase,
                                         sunMesh, moonMesh)
    IN  /\ sceneState' = settings
        /\ lightPosition' = c.light
        /\ sunMesh' = c.sun
        /\ moonMesh' = c.moon

\* dayTimeProgress >= 1.0 / nightTimeProgress >= 1.0
PastEnd(progress) == progress > ProgressOne
CycleComplete(progress) == progress >= ProgressOne

CycleInit ==
    /\ isDaytime = TRUE
    /\ dayTimeProgress = 0
    /\ nightTimeProgress = 0
    /\ sceneState = InitialSceneState
    /\ lightPosition = Origin
    /\ sunMesh = [visible |-> TRUE]
    /\ moonMesh = [visible |-> FALSE]
    /\ textContent = ButtonText(TRUE)
    /\ mushroomGate = FALSE
    /\ app = [isDaytime |-> TRUE, dayTimeProgress |-> 0, nightTimeProgress |-> 0,
              sceneState |-> InitialSceneState, lightPosition |-> Origin,
              sunMesh |-> [visible |-> TRUE],
              moonMesh |-> [visible |-> FALSE],
              textContent |-> ButtonText(TRUE)]
    /\ last = [event |-> "init", delta |-> 0, isDaytime |-> TRUE, progress |-> 0]

\* main.js animate() for a frame of delta ticks: the spawned mushrooms, then the
\* day/night cycle
AnimateStep(delta) ==
    /\ spawnedMushrooms' = MushroomsStep(spawnedMushrooms, delta)
    /\ last' = Event("tick", delta)
    /\ IF isDaytime
       THEN LET p == dayTimeProgress + delta * DayStep
            IN  IF CycleComplete(p)
                THEN /\ isDaytime' = FALSE
                     /\ nightTimeProgress' = 0
                     /\ dayTimeProgress' = 0
                     /\ ApplySceneState(nightSettings, FALSE, 0, 0)
                     /\ textContent' = "Switch to Night"
                ELSE /\ dayTimeProgress' = p
                     /\ LET c == UpdateCelestialBodyPosition(p, TRUE, isDaytime,
                                                             sunMesh, moonMesh)
                        IN  /\ lightPosition' = c.light
                            /\ sunMesh' = c.sun
                            /\ moonMesh' = c.moon
                     /\ UNCHANGED <<isDaytime, nightTimeProgress, sceneState, textContent>>
       ELSE LET p == nightTimeProgress + delta * NightStep
            IN  IF CycleComplete(p)
                THEN /\ isDaytime' = TRUE
                     /\ dayTimeProgress' = 0
                     /\ nightTimeProgress' = 0
                     /\ ApplySceneState(daySettings, TRUE, 0, 0)
                     /\ textContent' = "Switch to Day"
                ELSE /\ nightTimeProgress' = p
                     /\ LET c == UpdateCelestialBodyPosition(p, FALSE, isDaytime,
                                                             sunMesh, moonMesh)
                        IN  /\ lightPosition' = c.light
                            /\ sunMesh' = c.sun
                            /\ moonMesh' = c.moon
                     /\ UNCHANGED <<isDaytime, dayTimeProgress, sceneState, textContent>>
    /\ UNCHANGED <<mushroomGate, app, rvars, pvars, tvars, mushroomTemplates, portalMesh,
                   pointerEvents>>

\* a frame of a run that does not count its frames
AnimateStoppedClock(delta) == AnimateStep(0) /\ UNCHANGED frames
Animate(delta) == AnimateStep(delta) /\ UNCHANGED frames

\* a frame of a run that counts its frames
Frame(delta) ==
    /\ frames < MaxFrames
    /\ frames' = frames + 1
    /\ AnimateStep(delta)

\* main.js: the click handler of the day-night-toggle button
ToggleKeepsProgress ==
    /\ last' = Event("toggle", 0)
    /\ isDaytime' = ~isDaytime
    /\ dayTimeProgress' = (IF isDaytime THEN dayTimeProgress ELSE 0)
    /\ nightTimeProgress' = (IF isDaytime THEN 0 ELSE nightTimeProgress)
    /\ IF ~isDaytime
       THEN ApplySceneState(daySettings, TRUE, 0, 0)
       ELSE ApplySceneState(nightSettings, FALSE, 0, 0)
    /\ textContent' = ButtonText(~isDaytime)
    /\ UNCHANGED <<mushroomGate, app, rvars, pvars, tvars, svars>>
ToggleClick ==
    /\ last' = Event("toggle", 0)
    /\ isDaytime' = ~isDaytime
    /\ dayTimeProgress' = 0
    /\ nightTimeProgress' = 0
    /\ IF ~isDaytime
       THEN ApplySceneState(daySettings, TRUE, 0, 0)
       ELSE ApplySceneState(nightSettings, FALSE, 0, 0)
    /\ textContent' = ButtonText(~isDaytime)
    /\ UNCHANGED <<mushroomGate, app, rvars, pvars, tvars, svars>>

\* main.js: the OBJ load callback (runs once, at any time after init): the gate,
\* the portal, the templates, then the scene state of the current phase
ModelLoadedGateOnly ==
    /\ ~mushroomGate
    /\ mushroomGate' = TRUE
    /\ last' = Event("load", 0)
    /\ IF isDaytime
       THEN /\ dayTimeProgress' = ProgressOne \div 4
            /\ ApplySceneState(daySettings, TRUE, ProgressOne \div 4, nightTimeProgress)
            /\ UNCHANGED nightTimeProgress
       ELSE /\ nightTimeProgress' = ProgressOne \div 4
            /\ ApplySceneState(nightSettings, FALSE, dayTimeProgress, ProgressOne \div 4)
            /\ UNCHANGED dayTimeProgress
    /\ UNCHANGED <<mushroomTemplates, portalMesh>>
    /\ UNCHANGED <<isDaytime, textContent, app, rvars, pvars, tvars, spawnedMushrooms,
                   pointerEvents, frames>>
ModelLoaded ==
    /\ ~mushroomGate
    /\ mushroomGate' = TRUE
    /\ last' = Event("load", 0)
    /\ IF isDaytime
       THEN /\ dayTimeProgress' = ProgressOne \div 4
            /\ ApplySceneState(daySettings, TRUE, ProgressOne \div 4, nightTimeProgress)
            /\ UNCHANGED nightTimeProgress
       ELSE /\ nightTimeProgress' = ProgressOne \div 4
            /\ ApplySceneState(nightSettings, FALSE, dayTimeProgress, ProgressOne \div 4)
            /\ UNCHANGED dayTimeProgress
    /\ mushroomTemplates' = 3
    /\ \E box \in GateBoxes : portalMesh' = [exists |-> TRUE, position |-> PortalPosition(box)]
    /\ UNCHANGED <<isDaytime, textContent, app, rvars, pvars, tvars, spawnedMushrooms,
                   pointerEvents, frames>>

\* main.js onPointerDown: how far the handler gets when the ray hits the gate or
\* misses it
PointerOutcome(hit) ==
    IF ~mushroomGate THEN "noGate"
    ELSE IF ~hit THEN "miss"
    ELSE IF mushroomTemplates = 0 THEN "noTemplates"
    ELSE IF ~portalMesh.exists THEN "noPortal"
    ELSE "spawned"

\* main.js onPointerDown, with spawnMushroom when the ray hits the loaded gate
PointerDown(hit, draws) ==
    /\ pointerEvents < MaxPointerEvents
    /\ pointerEvents' = pointerEvents + 1
    /\ last' = [event |-> "pointerdown", delta |-> 0, isDaytime |-> isDaytime,
                progress |-> ActiveProgress, outcome |-> PointerOutcome(hit)]
    /\ IF mushroomGate /\ hit
       THEN spawnedMushrooms' = SpawnMushroom(spawnedMushrooms, draws, mushroomTemplates,
                                              portalMesh)
       ELSE UNCHANGED spawnedMushrooms
    /\ UNCHANGED <<isDaytime, dayTimeProgress, nightTimeProgress, sceneState,
                   lightPosition, sunMesh, moonMesh, textContent, mushroomGate, app,
                   mushroomTemplates, portalMesh, frames, rvars, pvars, tvars>>

\* app.js: the click listener installed by initDayNightToggle, with app.js's onToggle
AppToggleClick ==
    /\ last' = [event |-> "appToggle", delta |-> 0, isDaytime |-> app.isDaytime,
                progress |-> 0]
    /\ app' = [app EXCEPT !.isDaytime = ~app.isDaytime,
                          !.textContent = ButtonText(~app.isDaytime)]
    /\ UNCHANGED <<isDaytime, dayTimeProgress, nightTimeProgress, sceneState,
                   lightPosition, sunMesh, moonMesh, textContent, mushroomGate,
                   rvars, pvars, tvars, svars>>

CycleNext ==
    \/ \E delta \in Deltas : Animate(delta)
    \/ ToggleClick
    \/ ModelLoaded
    \/ AppToggleClick

\* the progress values handed to the exported updateCelestialBodyPosition: [0, 1]
\* in steps of one tick's worth of progress units, both ends and 0.5 included
Progresses == {u \in 0..ProgressOne : u % TicksPerSecond = 0}

\* DayNightCycle module: one call updateCelestialBodyPosition({progress, isDay, ...,
\* isDaytime}) on the light and the two meshes; the phase is an argument the call
\* only reads
CelestialUpdate(progress, isDay) ==
    /\ last' = [event |-> "update", progress |-> progress, isDay |-> isDay]
    /\ \E c \in {UpdateCelestialBodyPosition(progress, isDay, isDaytime, sunMesh, moonMesh)} :
          /\ lightPosition' = c.light
          /\ sunMesh' = c.sun
          /\ moonMesh' = c.moon
    /\ UNCHANGED <<isDaytime, dayTimeProgress, nightTimeProgress, sceneState,
                   textContent, mushroomGate, app, rvars, pvars, tvars, svars>>

\* the scene objects as init() creates them, in either phase
CelestialInit ==
    /\ isDaytime \in BOOLEAN
    /\ dayTimeProgress = 0
    /\ nightTimeProgress = 0
    /\ sceneState = InitialSceneState
    /\ lightPosition = Origin
    /\ sunMesh = [visible |-> TRUE]
    /\ moonMesh = [visible |-> FALSE]
    /\ textContent = ButtonText(TRUE)
    /\ mushroomGate = FALSE
    /\ app = [isDaytime |-> TRUE, dayTimeProgress |-> 0, nightTimeProgress |-> 0,
              sceneState |-> InitialSceneState, lightPosition |-> Origin,
              sunMesh |-> [visible |-> TRUE],
              moonMesh |-> [visible |-> FALSE],
              textContent |-> ButtonText(TRUE)]
    /\ last = [event |-> "init", progress |-> 0, isDay |-> TRUE]

CelestialNext ==
    \E progress \in Progresses, isDay \in BOOLEAN : CelestialUpdate(progress, isDay)

----------------------------------------------------------------------------
(* Specifications                                                          *)

\* the stream objects: construction, draws, the wall clock
InitRandom == RandomInit /\ PlacementIdle /\ CycleInit /\ TerrainIdle /\ SpawnIdle
SpecRandom == InitRandom /\ [][RandomNext]_vars

\* one placement pass
InitPlacement == PlacementInit /\ RandomInit /\ CycleInit /\ TerrainIdle /\ SpawnIdle
SpecPlacement == InitPlacement /\ [][PlacementNext]_vars

\* a placement pass that keeps running while it can (the pass is one synchronous
\* call), and whose rejection loops take the accept exit when candidates allow it
FairSpecPlacement == SpecPlacement /\ WF_vars(PlacementNext)

\* the day/night cycle (main.js and app.js)
Init == CycleInit /\ RandomInit /\ PlacementIdle /\ TerrainIdle /\ SpawnIdle
Next == CycleNext
Spec == Init /\ [][Next]_vars

\* the cycle left to itself: frames of positive length and the model load, no
\* click on the toggle; requestAnimationFrame keeps the frames coming
PositiveDeltas == Deltas \ {0}
TicksNext ==
    \/ \E delta \in PositiveDeltas : Animate(delta)
    \/ ModelLoaded
SpecTicks == Init /\ [][TicksNext]_vars
FairSpecTicks == SpecTicks /\ WF_vars(\E delta \in PositiveDeltas : Animate(delta))

\* the celestial update as a function of its arguments (DayNightCycle module)
InitCelestial == CelestialInit /\ RandomInit /\ PlacementIdle /\ TerrainIdle /\ SpawnIdle
SpecCelestial == InitCelestial /\ [][CelestialNext]_vars

\* the spawned mushrooms: pointer events and frames of positive length around the
\* load callback, from an empty scene
SpawnDeltas == {1, 3}
SpawnNext ==
    \/ \E delta \in SpawnDeltas : Frame(delta)
    \/ \E hit \in BOOLEAN, draws \in LaunchDraws : PointerDown(hit, draws)
    \/ ModelLoaded

\* a mushroom after n frames of one tick each, and the frames it needs to land
RECURSIVE Flown(_, _)
Flown(m, n) ==
    IF n = 0 THEN m
    ELSE CHOOSE r \in {Flown(next, n - 1) : next \in {MushroomStep(m, 1)}} : TRUE
RECURSIVE FlightFrames(_)
FlightFrames(m) ==
    IF ~m.airborne THEN 0
    ELSE CHOOSE n \in {1 + FlightFrames(next) : next \in {MushroomStep(m, 1)}} : TRUE

\* the scene at the limit: the model loaded at once, then MAX_SPAWNED_MUSHROOMS
\* hits on the gate, every Math.random() returning 0, then the frames of one tick
\* that land them all (events and frames are counted from here)
FirstBox == CHOOSE box \in GateBoxes : box.min.y = 0
FirstLaunch == NewMushroom(1, <<0, 0, 0, 0, 0, 0, 0>>, 3, PortalPosition(FirstBox))
CrowdedFrames == FlightFrames(FirstLaunch)
CrowdedProgress == ProgressOne \div 4 + CrowdedFrames * DayStep
CrowdedScene ==
    /\ isDaytime = TRUE
    /\ nightTimeProgress = 0
    /\ sceneState = daySettings
    /\ \E progress \in {CrowdedProgress} :
          /\ dayTimeProgress = progress
          /\ last = [event |-> "tick", delta |-> 1, isDaytime |-> TRUE,
                     progress |-> progress - DayStep]
          /\ \E c \in {UpdateCelestialBodyPosition(progress, TRUE, TRUE,
                                                   [visible |-> TRUE], [visible |-> FALSE])} :
                /\ lightPosition = c.light
                /\ sunMesh = c.sun
                /\ moonMesh = c.moon
    /\ textContent = ButtonText(TRUE)
    /\ mushroomGate = TRUE
    /\ app = [isDaytime |-> TRUE, dayTimeProgress |-> 0, nightTimeProgress |-> 0,
              sceneState |-> InitialSceneState, lightPosition |-> Origin,
              sunMesh |-> [visible |-> TRUE],
              moonMesh |-> [visible |-> FALSE],
              textContent |-> ButtonText(TRUE)]
    /\ \E landed \in {Flown(FirstLaunch, CrowdedFrames)} :
          spawnedMushrooms = [k \in 1..MAX_SPAWNED_MUSHROOMS |-> [landed EXCEPT !.mesh = k]]
    /\ mushroomTemplates = 3
    /\ portalMesh = [exists |-> TRUE, position |-> PortalPosition(FirstBox)]
    /\ pointerEvents = 0
    /\ frames = 0

InitSpawn ==
    /\ RandomInit /\ PlacementIdle /\ TerrainIdle
    /\ (CycleInit /\ SpawnIdle) \/ CrowdedScene
SpecSpawn == InitSpawn /\ [][SpawnNext]_vars

\* the same with the animation loop running: requestAnimationFrame keeps calling
\* animate, so a frame is rendered whenever one is left to render
FairSpecSpawn == SpecSpawn /\ WF_vars(\E delta \in SpawnDeltas : Frame(delta))

\* the terrain noise functions, one call on each input
InitTerrain == TerrainInit /\ RandomInit /\ PlacementIdle /\ CycleInit /\ SpawnIdle
SpecTerrain == InitTerrain /\ [][TerrainNext]_vars

----------------------------------------------------------------------------
(* Day/night cycle claims (specification Spec)                             *)

\* the settings record that belongs to a phase
SettingsOf(phase) == IF phase THEN daySettings ELSE nightSettings

\* delta / DAY_CYCLE_DURATION or delta / NIGHT_CYCLE_DURATION, in progress units
Increment(phase, delta) == delta * (IF phase THEN DayStep ELSE NightStep)

\* C1: after every animation tick the active phase's progress is in [0,1); a tick
\* whose increment brings the active progress to 1.0 or beyond flips isDaytime in
\* that same tick and leaves the progress at exactly 0 (the overshoot is dropped);
\* any other tick keeps the phase and adds the increment.
C1_ProgressWraps ==
    /\ dayTimeProgress \in 0..(ProgressOne - 1)
    /\ nightTimeProgress \in 0..(ProgressOne - 1)
    /\ last.event = "tick" =>
          IF last.progress + Increment(last.isDaytime, last.delta) >= ProgressOne
          THEN isDaytime = ~last.isDaytime /\ ActiveProgress = 0
          ELSE /\ isDaytime = last.isDaytime
               /\ ActiveProgress = last.progress + Increment(last.isDaytime, last.delta)

\* Day at 0.98 advanced by 0.05 has ended as Night at progress 0
C1_Witness ==
    /\ last.event = "tick" /\ last.isDaytime
    /\ 100 * last.progress = 98 * ProgressOne
    /\ 100 * Increment(TRUE, last.delta) = 5 * ProgressOne
    /\ ~isDaytime /\ nightTimeProgress = 0 /\ dayTimeProgress = 0

\* C2: a click on the day/night button flips the phase, sets both progress values
\* to 0 and applies the new phase's settings and celestial bodies in the same step,
\* which is the state an automatic transition into that phase produces; this is
\* asked of the handler of main.js and of the handler app.js installs.
C2_ToggleEntersPhase ==
    /\ last.event = "toggle" =>
          /\ isDaytime = ~last.isDaytime
          /\ dayTimeProgress = 0 /\ nightTimeProgress = 0
          /\ sceneState = SettingsOf(isDaytime)
          /\ lightPosition = CelestialPosition(0)
          /\ sunMesh.visible = isDaytime /\ moonMesh.visible = ~isDaytime
    /\ last.event = "appToggle" =>
          /\ app.isDaytime = ~last.isDaytime
          /\ app.dayTimeProgress = 0 /\ app.nightTimeProgress = 0
          /\ app.sceneState = SettingsOf(app.isDaytime)
          /\ app.lightPosition = CelestialPosition(0)
          /\ app.sunMesh.visible = app.isDaytime /\ app.moonMesh.visible = ~app.isDaytime

\* C3: after a tick that changed the phase, the settings in effect are the new
\* phase's, the body of the old phase is hidden and the body of the new phase is
\* the one updated (at the start of its arc, shown).
C3_TransitionAppliesSnapshot ==
    (last.event = "tick" /\ isDaytime # last.isDaytime) =>
        /\ sceneState = SettingsOf(isDaytime)
        /\ sceneState # SettingsOf(last.isDaytime)
        /\ lightPosition = CelestialPosition(0)
        /\ sunMesh.visible = isDaytime
        /\ moonMesh.visible = ~isDaytime

\* a tick has taken Night to Day and the day settings are in effect, the sun shown
C3_Witness ==
    /\ last.event = "tick" /\ ~last.isDaytime /\ last.delta > 0
    /\ isDaytime /\ sceneState = daySettings
    /\ sunMesh.visible /\ ~moonMesh.visible

\* C4: in every state the body of the inactive phase is hidden, in main.js and in
\* the scene app.js drives: the moon while isDaytime, the sun while not.
C4_InactiveBodyHidden ==
    /\ isDaytime => ~moonMesh.visible
    /\ ~isDaytime => ~sunMesh.visible
    /\ app.isDaytime => ~app.moonMesh.visible
    /\ ~app.isDaytime => ~app.sunMesh.visible

----------------------------------------------------------------------------
(* Placement claims (specifications SpecPlacement, FairSpecPlacement)      *)

\* the matrices written so far into an instanced mesh
Placed(mesh) == {mesh.slots[k].m : k \in {n \in DOMAIN mesh.slots : mesh.slots[n].writes > 0}}

\* every slot of the mesh has been written exactly once
WrittenOnce(mesh) == \A k \in DOMAIN mesh.slots : mesh.slots[k].writes = 1

TreeMeshes ==
    {trees.deciduousTrunkInstances, trees.deciduousFoliageInstances,
     trees.coniferousTrunkInstances, trees.coniferousFoliageInstances}

MushroomMeshes == {mush.stemInstances} \cup {mush.capInstances[k] : k \in 1..3}

InSquare(m, a) == m.x \in (0 - a.SPREAD)..(a.SPREAD - 1) /\ m.z \in (0 - a.SPREAD)..(a.SPREAD - 1)

\* C5: every instance a placement pass has produced satisfies its distance
\* constraint, for every seed: a tree lies at least the minimum distance from the
\* centre, a mushroom between the minimum distance and 0.9 * SPREAD, and x and z
\* are each in [-SPREAD, SPREAD).
C5_DistanceConstraint ==
    /\ \A mesh \in TreeMeshes : \A m \in Placed(mesh) :
          /\ InSquare(m, args)
          /\ m.x * m.x + m.z * m.z >= args.minDistance * args.minDistance
    /\ \A mesh \in MushroomMeshes : \A m \in Placed(mesh) :
          /\ InSquare(m, args)
          /\ m.x * m.x + m.z * m.z >= args.minDistance * args.minDistance
          /\ m.x * m.x + m.z * m.z <= 81 * ((args.SPREAD \div 10) * (args.SPREAD \div 10))

\* the default tree pass is over with every deciduous slot written once, and the
\* coniferous mesh holds more than one position
C5_Witness ==
    /\ args.fn = "createInstancedTrees" /\ args.count = TREE_COUNT
    /\ args.minDistance = Milli(MIN_DISTANCE_FROM_CENTER_TREES)
    /\ pc = "done"
    /\ WrittenOnce(trees.deciduousTrunkInstances)
    /\ Cardinality(Placed(trees.coniferousTrunkInstances)) > 1

\* C6: in the mushroom pass the three counts sum to the total N, differ by at most
\* one, never increase with the variety index (the remainder goes to the earliest
\* varieties: 150 -> 50/50/50, 151 -> 51/50/50, 152 -> 51/51/50), and the list of
\* type tags has N entries, counts[k] of them for variety k.
C6_MushroomCounts ==
    (args.fn = "createInstancedMushrooms" /\ pc # "start") =>
        /\ mush.counts[1] + mush.counts[2] + mush.counts[3] = args.count
        /\ mush.counts[1] >= mush.counts[2] /\ mush.counts[2] >= mush.counts[3]
        /\ mush.counts[1] - mush.counts[3] <= 1
        /\ args.count = MUSHROOM_COUNT => mush.counts = <<50, 50, 50>>
        /\ args.count = MUSHROOM_COUNT + 1 => mush.counts = <<51, 50, 50>>
        /\ args.count = MUSHROOM_COUNT + 2 => mush.counts = <<51, 51, 50>>
        /\ Len(mush.instanceTypes) = args.count
        /\ \A k \in 1..3 :
              Cardinality({n \in DOMAIN mush.instanceTypes : mush.instanceTypes[n] = k})
                  = mush.counts[k]

\* a pass of 151 mushrooms has finished with the counts 51/50/50
C6_Witness ==
    /\ args.fn = "createInstancedMushrooms" /\ args.count = MUSHROOM_COUNT + 1
    /\ pc = "done"
    /\ mush.counts = <<51, 50, 50>>
    /\ Len(mush.instanceTypes) = MUSHROOM_COUNT + 1

\* C7 as claimed: the two tree counts sum to the total and, when the total is odd,
\* the extra instance goes to the earliest type, deciduous.
C7_ExtraToDeciduous ==
    (args.fn = "createInstancedTrees" /\ pc # "start") =>
        /\ trees.deciduousCount + trees.coniferousCount = args.count
        /\ args.count % 2 = 1 => trees.deciduousCount = trees.coniferousCount + 1

\* C7 as amended: the two tree counts sum to the total; deciduous gets the total
\* halved and rounded down, so that an odd total gives the extra instance to coniferous.
C7_ExtraToConiferous ==
    (args.fn = "createInstancedTrees" /\ pc # "start") =>
        /\ trees.deciduousCount + trees.coniferousCount = args.count
        /\ 2 * trees.deciduousCount \in {args.count - 1, args.count}
        /\ args.count % 2 = 1 => trees.coniferousCount = trees.deciduousCount + 1
        /\ Len(trees.deciduousTrunkInstances.slots) = trees.deciduousCount
        /\ Len(trees.coniferousTrunkInstances.slots) = trees.coniferousCount

\* a pass of 3 trees has finished with 1 deciduous and 2 coniferous
C7_Witness ==
    /\ args.fn = "createInstancedTrees" /\ args.count = 3
    /\ pc = "done"
    /\ trees.deciduousCount = 1 /\ trees.coniferousCount = 2
    /\ WrittenOnce(trees.coniferousFoliageInstances)

\* no point a pass can draw satisfies the distance constraint
Unsatisfiable(a) ==
    \/ /\ a.fn = "createInstancedTrees"
       /\ a.minDistance * a.minDistance > 2 * (a.SPREAD * a.SPREAD)
    \/ /\ a.fn = "createInstancedMushrooms"
       /\ 10 * a.minDistance > 9 * a.SPREAD

\* C8: a pass started with an unsatisfiable distance constraint ends in a
\* configuration error before anything is placed: it gets no further than its
\* start, and no candidate is drawn and rejected for it.
C8_UnsatisfiableFailsFast ==
    Unsatisfiable(args) => pc \in {"start", "configuration error"} /\ rejected = 0

\* the pass is over with every slot of every mesh written exactly once, and as
\* many slots as instances were asked for
ExactlyPlaced ==
    /\ pc = "done"
    /\ args.fn = "createInstancedTrees" =>
          /\ \A mesh \in TreeMeshes : WrittenOnce(mesh)
          /\ Len(trees.deciduousTrunkInstances.slots)
                 + Len(trees.coniferousTrunkInstances.slots) = args.count
          /\ Len(trees.deciduousFoliageInstances.slots)
                 + Len(trees.coniferousFoliageInstances.slots) = args.count
    /\ args.fn = "createInstancedMushrooms" =>
          /\ \A mesh \in MushroomMeshes : WrittenOnce(mesh)
          /\ Len(mush.stemInstances.slots) = args.count
          /\ Len(mush.capInstances[1].slots) + Len(mush.capInstances[2].slots)
                 + Len(mush.capInstances[3].slots) = args.count

\* C9: for a satisfiable configuration a placement pass that keeps running
\* terminates, having placed exactly the requested number of instances.
C9_SatisfiablePassTerminates == (~Unsatisfiable(args)) ~> ExactlyPlaced

\* the default mushroom pass is over with all 150 stems and caps placed
C9_Witness ==
    /\ args.fn = "createInstancedMushrooms" /\ args.count = MUSHROOM_COUNT
    /\ args.minDistance = Milli(MIN_DISTANCE_FROM_GATEWAY_CENTER)
    /\ ExactlyPlaced

----------------------------------------------------------------------------
(* SeededRandom claims (specification SpecRandom)                          *)

\* both streams were constructed with the same explicit seed
SameExplicitSeed ==
    /\ Explicit(streams[1].arg)
    /\ streams[2].arg = streams[1].arg

\* the seed field of stream s changes in this step
SeedChanges(s) == streams'[s].seed # streams[s].seed

\* stream s returns from one more call in this step
Draws(s) == Len(streams'[s].calls) = Len(streams[s].calls) + 1

\* C10: two streams constructed with the same explicit seed and driven by the same
\* sequence of random / randFloat / randInt calls have returned identical values
\* at every step and, after equally many calls, are in identical states; and the
\* state of a constructed stream changes only in a step in which it draws.
C10_SameSeedSameStream ==
    /\ [](SameExplicitSeed =>
            /\ \A n \in 1..Len(streams[2].outs) :
                  /\ streams[2].calls[n] = streams[1].calls[n]
                  /\ streams[2].outs[n] = streams[1].outs[n]
            /\ Len(streams[2].calls) = Len(streams[1].calls) =>
                  streams[2].seed = streams[1].seed)
    /\ [][\A s \in Streams :
             (streams[s].arg # NotConstructed /\ SeedChanges(s)) => Draws(s)]_vars

\* two streams seeded with 0 at different clock readings have made the same two
\* calls, returned the same values and reached the same state, away from the seed
C10_Witness ==
    /\ SameExplicitSeed
    /\ streams[1].arg.n = 0
    /\ clock > 0
    /\ Len(streams[1].calls) >= 2
    /\ streams[2].calls = streams[1].calls
    /\ streams[2].outs = streams[1].outs
    /\ streams[2].seed = streams[1].seed
    /\ streams[1].seed # Num(0)

\* a number in halves is an integer of the 32-bit range 0 .. 2^32 - 1
IsUint32(w) == w.hi \in 0..(H16 - 1) /\ w.lo \in 0..(H16 - 1)

\* C11: the stored state seed of every constructed stream is a 32-bit integer in
\* every reachable state, whatever the initial seed (the clock-derived one
\* included) and however many draws were made.
C11_SeedIs32Bit ==
    \A s \in Streams : streams[s].arg # NotConstructed => IsUint32(streams[s].seed)

\* C12: every call has returned from a numerator k in 0 .. 2^32 - 1: random() a
\* value in [0, 1), randFloat(a, b) a value in [a, b).
C12_DrawsInRange ==
    \A s \in Streams : \A n \in 1..Len(streams[s].outs) :
        /\ IsUint32(streams[s].outs[n].k)
        /\ streams[s].calls[n].op = "random" => streams[s].outs[n].v \in 0..999
        /\ streams[s].calls[n].op = "randFloat" =>
              streams[s].outs[n].v \in streams[s].calls[n].min..(streams[s].calls[n].max - 1)

\* a stream has returned from random() and from randFloat(-20, 20), one of them in
\* the upper half of its range
C12_Witness ==
    \E n \in 1..Len(streams[1].outs) : \E o \in 1..Len(streams[1].outs) :
        /\ streams[1].calls[n].op = "random"
        /\ streams[1].calls[o].op = "randFloat"
        /\ streams[1].outs[n].k.hi >= H16 \div 2 \/ streams[1].outs[o].k.hi >= H16 \div 2

----------------------------------------------------------------------------
(* Draw order and pairing of the placement passes (SpecPlacement)          *)

\* this step runs the rest of a loop body for an accepted candidate
PlacesInstance == pc \in {"deciduous", "coniferous", "place"} /\ pc' = pc /\ i' = i + 1

\* the scale range of the loop at pc, in thousandths
ScaleLow == CASE pc = "deciduous" -> 800 [] pc = "coniferous" -> 700 [] OTHER -> 500
ScaleHigh == CASE pc = "deciduous" -> 1200 [] pc = "coniferous" -> 1100 [] OTHER -> 1500

\* the matrix this step writes at index i (trunk, or stem)
WrittenMatrix ==
    CASE pc = "deciduous" -> trees'.deciduousTrunkInstances.slots[i + 1].m
      [] pc = "coniferous" -> trees'.coniferousTrunkInstances.slots[i + 1].m
      [] OTHER -> mush'.stemInstances.slots[i + 1].m

\* C13 as claimed: after the accepted (x, z) pair the next draw is the yaw
\* rotation and the one after it the scale multiplier.
C13_YawThenScale ==
    [][PlacesInstance =>
          \E c \in {Candidate(prng, args.SPREAD)} : \E ry \in {Random(c.seed)} :
          \E rs \in {RandFloat(ry.seed, ScaleLow, ScaleHigh)} :
              /\ WrittenMatrix.x = c.x /\ WrittenMatrix.z = c.z
              /\ WrittenMatrix.rotation = ScaleFloor(ry.k, TwoPiMilli)
              /\ WrittenMatrix.scale = rs.v
              /\ prng' = rs.seed]_vars

\* C13 as amended: after the accepted (x, z) pair the next draw is the scale
\* multiplier and the one after it the yaw rotation; the stream is left after
\* exactly these four draws.
C13_ScaleThenYaw ==
    [][PlacesInstance =>
          \E c \in {Candidate(prng, args.SPREAD)} :
          \E rs \in {RandFloat(c.seed, ScaleLow, ScaleHigh)} : \E ry \in {Random(rs.seed)} :
              /\ WrittenMatrix.x = c.x /\ WrittenMatrix.z = c.z
              /\ WrittenMatrix.scale = rs.v
              /\ WrittenMatrix.rotation = ScaleFloor(ry.k, TwoPiMilli)
              /\ prng' = ry.seed]_vars

\* the first deciduous tree of a pass has been placed on the first candidate, with
\* a scale and a yaw drawn
C13_Witness ==
    /\ args.fn = "createInstancedTrees" /\ pc = "deciduous" /\ i = 1 /\ rejected = 0
    /\ trees.deciduousTrunkInstances.slots[1].writes = 1
    /\ trees.deciduousTrunkInstances.slots[1].m.scale \in 800..1199
    /\ trees.deciduousTrunkInstances.slots[1].m.rotation \in 1..(TwoPiMilli - 1)

\* the number of mushrooms of the first n that carry the type tag k
TaggedAmong(n, k) ==
    Cardinality({j \in 1..n : j \in DOMAIN mush.instanceTypes /\ mush.instanceTypes[j] = k})

\* the mushrooms placed so far (the loop index while the loop runs, all at the end)
MushroomsPlaced == IF pc \in {"place", "done"} /\ args.fn = "createInstancedMushrooms" THEN i ELSE 0

\* C14: for every tree index the trunk and foliage slots hold the same transform;
\* for every mushroom placed the stem's matrix is the matrix in its cap's slot (the
\* next free slot of its variety); and once the mushroom pass is over every cap
\* slot of every variety has been written exactly once, as has every stem slot.
C14_PairedTransforms ==
    /\ trees.deciduousTrunkInstances = trees.deciduousFoliageInstances
    /\ trees.coniferousTrunkInstances = trees.coniferousFoliageInstances
    /\ \A n \in 1..MushroomsPlaced :
          LET k == mush.instanceTypes[n]
              slot == TaggedAmong(n, k)
          IN  /\ mush.capInstances[k].exists
              /\ slot \in DOMAIN mush.capInstances[k].slots
              /\ mush.capInstances[k].slots[slot] = [writes |-> 1, m |-> mush.stemInstances.slots[n].m]
              /\ mush.stemInstances.slots[n].writes = 1
    /\ (pc = "done" /\ args.fn = "createInstancedMushrooms") =>
          /\ \A k \in 1..3 : /\ WrittenOnce(mush.capInstances[k])
                             /\ Len(mush.capInstances[k].slots) = mush.counts[k]
                             /\ mush.vIdx[k] = mush.counts[k]
          /\ WrittenOnce(mush.stemInstances)

\* a pass of 152 mushrooms is over, its tags out of variety order, and the last
\* stem shares its matrix with the last cap slot of its variety
C14_Witness ==
    /\ args.fn = "createInstancedMushrooms" /\ args.count = MUSHROOM_COUNT + 2
    /\ pc = "done" /\ i = args.count
    /\ mush.instanceTypes[1] # 1
    /\ \E k \in 1..3 :
          /\ mush.instanceTypes[i] = k
          /\ mush.capInstances[k].slots[mush.counts[k]].m = mush.stemInstances.slots[i].m
          /\ mush.stemInstances.slots[i].writes = 1

\* a mushroom pass whose total is smaller than the number of varieties
FewerThanVarieties == args.fn = "createInstancedMushrooms" /\ args.count < 3

\* in such a pass, once set up: the varieties beyond the total have count 0, no cap
\* mesh and no cap write, the others one slot each; a finished pass has placed as
\* many stems as the total
SkipsEmptyVarieties ==
    (FewerThanVarieties /\ pc # "start") =>
        /\ \A k \in 1..3 :
              IF k > args.count
              THEN mush.counts[k] = 0 /\ mush.capInstances[k] = NullMesh /\ mush.vIdx[k] = 0
              ELSE mush.counts[k] = 1 /\ Len(mush.capInstances[k].slots) = 1
        /\ Len(mush.stemInstances.slots) = args.count
        /\ pc = "done" => WrittenOnce(mush.stemInstances)

\* C15: when the mushroom total is smaller than the number of varieties (0
\* included), each variety whose count is 0 gets no cap mesh and no cap write, the
\* number of stems placed equals the total, and the pass (with a distance
\* constraint that candidates can meet, or nothing to place) runs to its end.
C15_SmallTotalCompletes ==
    /\ []SkipsEmptyVarieties
    /\ (FewerThanVarieties /\ (args.count = 0 \/ ~Unsatisfiable(args))) ~> (pc = "done")

\* a pass of 2 mushrooms is over: two stems, one cap each for the first two
\* varieties, no mesh for the third
C15_Witness ==
    /\ FewerThanVarieties /\ args.count = 2 /\ pc = "done"
    /\ WrittenOnce(mush.stemInstances) /\ Len(mush.stemInstances.slots) = 2
    /\ mush.capInstances[3] = NullMesh
    /\ WrittenOnce(mush.capInstances[1]) /\ WrittenOnce(mush.capInstances[2])

----------------------------------------------------------------------------
(* Celestial orbit claims (specification SpecCelestial)                     *)

\* the last step was a celestial update
Updated == last.event = "update"

\* the orbit radius in thousandths, and progress 0.5 in progress units
RMilli == LIGHT_ORBIT_RADIUS * 1000
HalfProgress == ProgressOne \div 2

NormSq(pos) == pos.x * pos.x + pos.y * pos.y + pos.z * pos.z

\* v is R squared, to within the 2% that covers the sine approximation
NearRSq(v) ==
    /\ v >= RMilli * RMilli - (RMilli * RMilli) \div 50
    /\ v <= RMilli * RMilli + (RMilli * RMilli) \div 50

\* C16 (as stated): for every progress in [0,1] the computed light position lies
\* on the circle of radius R around the origin, and at progress 0.5 it is (0, R, 0).
C16_OnCircleOverhead ==
    Updated =>
        /\ NearRSq(NormSq(lightPosition))
        /\ last.progress = HalfProgress =>
              lightPosition = [x |-> 0, y |-> RMilli, z |-> 0]

\* C16 (amended): for every progress in [0,1] the height and the east-west
\* component (y, z) of the computed position lie on the circle of radius R, and
\* the x component equals the height, so the position is R from the origin only
\* at the horizon; at progress 0.5 the position is (R, R, 0), at height R.
C16_TiltedArc ==
    Updated =>
        /\ NearRSq(lightPosition.y * lightPosition.y + lightPosition.z * lightPosition.z)
        /\ lightPosition.x = lightPosition.y
        /\ last.progress \in {0, ProgressOne} => NormSq(lightPosition) = RMilli * RMilli
        /\ last.progress = HalfProgress =>
              lightPosition = [x |-> RMilli, y |-> RMilli, z |-> 0]

\* an update at progress 0.5 has put the light R * sqrt(2) from the origin
C16_Witness ==
    /\ Updated
    /\ last.progress = HalfProgress
    /\ NormSq(lightPosition) = 2 * RMilli * RMilli

\* C17: the height is y = R sin((1 - progress) pi) with R = 25: 0 at progress 0,
\* R, its maximum, at progress 0.5, 0 again at progress 1, rising before 0.5 and
\* falling after it, and never negative on [0,1].
C17_HeightArc ==
    Updated =>
        /\ RMilli = 25000
        /\ lightPosition.y = LIGHT_ORBIT_RADIUS * SinPiMilli(ProgressOne - last.progress)
        /\ lightPosition.y \in 0..RMilli
        /\ last.progress \in {0, ProgressOne} => lightPosition.y = 0
        /\ last.progress = HalfProgress => lightPosition.y = RMilli
        /\ \A q \in Progresses :
              ((q <= last.progress /\ last.progress <= HalfProgress)
                  \/ (q >= last.progress /\ last.progress >= HalfProgress))
              => CelestialPosition(q).y <= lightPosition.y

\* an update at progress 0.5 has put the light at height R
C17_Witness ==
    /\ Updated
    /\ last.progress = HalfProgress
    /\ lightPosition.y = RMilli
    /\ CelestialPosition(0).y = 0
    /\ CelestialPosition(ProgressOne).y = 0

\* the mesh a call with isDay updates
UpdatedMesh == IF last.isDay THEN sunMesh ELSE moonMesh

----------------------------------------------------------------------------
(* Terrain noise claims (specification SpecTerrain)                        *)

HashReturned == noiseCall.fn = "pseudoRandom" /\ noiseCall.returned
NoiseReturned == noiseCall.fn = "interpolatedNoise" /\ noiseCall.returned

\* C19: for all integer lattice coordinates the lattice hash is in [-1, 1]: the
\* masked integer n is a 31-bit natural with n / 1073741823 at most 2, and the
\* value returned, 1 - n / 1073741823, is at least -1 and at most 1.
C19_HashInRange ==
    HashReturned =>
        /\ PseudoRandomN(noiseCall.ix, noiseCall.iz) \in 0..(2 * HashDivisor)
        /\ noiseValue \in (0 - Micro)..Micro

\* the hash of a lattice point with a negative coordinate has come out negative
C19_Witness ==
    /\ HashReturned
    /\ noiseCall.ix < 0
    /\ noiseValue < 0

\* the lattice cell and the fractions of the interpolatedNoise call made
CallIntX == ScaledInt(noiseCall.x, noiseCall.frequency)
CallIntZ == ScaledInt(noiseCall.z, noiseCall.frequency)
CallFracX == ScaledFrac(noiseCall.x, noiseCall.frequency)
CallFracZ == ScaledFrac(noiseCall.z, noiseCall.frequency)

\* C20: interpolatedNoise has no jump at lattice boundaries: the blend weight
\* t * t * (3 - 2t) is 0 at fraction 0 and 1 at fraction 1; at integer scaled
\* coordinates the call returns exactly the lattice hash of that point; and on a
\* cell edge (one fraction 0) it returns what the cell on the other side of the
\* edge gives at fraction 1.
C20_NoJumpAtLattice ==
    /\ SmoothFrac(0) = 0
    /\ SmoothFrac(1000) = 1000
    /\ NoiseReturned =>
          /\ (CallFracX = 0 /\ CallFracZ = 0) =>
                noiseValue = PseudoRandom(CallIntX, CallIntZ)
          /\ CallFracX = 0 =>
                noiseValue = NoiseInCell(CallIntX - 1, CallIntZ, 1000, CallFracZ)
          /\ CallFracZ = 0 =>
                noiseValue = NoiseInCell(CallIntX, CallIntZ - 1, CallFracX, 1000)

\* a call at integer scaled coordinates away from the origin has returned the
\* hash of its lattice point, which differs from the hashes of the neighbours
C20_Witness ==
    /\ NoiseReturned
    /\ CallFracX = 0
    /\ CallFracZ = 0
    /\ CallIntX # 0
    /\ noiseValue = PseudoRandom(CallIntX, CallIntZ)
    /\ noiseValue # PseudoRandom(CallIntX - 1, CallIntZ)
    /\ noiseValue # PseudoRandom(CallIntX + 1, CallIntZ)
    /\ noiseValue # PseudoRandom(CallIntX, CallIntZ + 1)

----------------------------------------------------------------------------
(* The shuffle of the mushroom pass (specification SpecPlacement)          *)

\* the seeds the pass at hand can have started from
StartSeeds == {s \in PlacementSeeds : args.count > MaxSmallCount => s = Num(PLACEMENT_SEED)}

\* the draws a shuffle of n tags takes
ShuffleDraws(n) == IF n > 0 THEN n - 1 ELSE 0

\* no stem slot has been written
NothingPlaced == \A k \in DOMAIN mush.stemInstances.slots : mush.stemInstances.slots[k].writes = 0

\* the tag list still holds counts[k] tags of every variety k
TagsPermuted ==
    /\ Len(mush.instanceTypes) = args.count
    /\ \A k \in 1..3 : TaggedAmong(args.count, k) = mush.counts[k]

\* the tag list t with the entries at (0-based) i and j exchanged
Swapped(t, a, b) == [t EXCEPT ![a + 1] = t[b + 1], ![b + 1] = t[a + 1]]

\* one round of the loop: from index i one draw is taken, j = floor(draw * (i + 1))
\* is in 0..i, the tags at i and j are exchanged and i goes down by one
ShuffleRound ==
    (pc = "shuffle" /\ pc' = "shuffle") =>
        /\ i >= 1
        /\ i' = i - 1
        /\ prng' = Skip(prng, 1)
        /\ \E j \in 0..i :
              /\ j = ScaleFloor(Random(prng).k, i + 1)
              /\ mush'.instanceTypes = Swapped(mush.instanceTypes, i, j)

\* the loop starts at the last index without a draw and ends below index 1
\* without a draw, leaving the tags as the last round left them
ShuffleEnds ==
    /\ (pc = "start" /\ pc' = "shuffle") =>
          prng' = prng /\ i' = args.count - 1 /\ mush'.instanceTypes = TypeTags(mush'.counts)
    /\ (pc = "shuffle" /\ pc' = "place") =>
          prng' = prng /\ i <= 0 /\ mush' = mush

\* C21: the shuffle of the mushroom pass takes exactly N - 1 draws, one for each i
\* from N - 1 down to 1 with swap index j = floor(draw * (i + 1)) in 0..i, all of
\* them before the first position draw; the tag list stays a permutation of the
\* unshuffled one, so every variety keeps its count.
C21_ShuffleDraws ==
    /\ [][ShuffleRound /\ ShuffleEnds]_vars
    /\ [](pc = "shuffle" =>
            /\ NothingPlaced
            /\ TagsPermuted
            /\ args.count <= MaxSmallCount =>
                  prng \in {Skip(s, ShuffleDraws(args.count) - (IF i > 0 THEN i ELSE 0)) :
                               s \in StartSeeds})
    /\ []((pc = "place" /\ i = 0 /\ rejected = 0) =>
            /\ NothingPlaced
            /\ TagsPermuted
            /\ prng \in {Skip(s, ShuffleDraws(args.count)) : s \in StartSeeds})

\* the program's own pass has shuffled its 150 tags with 149 draws, and the
\* order has changed
C21_Witness ==
    /\ pc = "place" /\ i = 0 /\ rejected = 0
    /\ args.count = MUSHROOM_COUNT
    /\ prng = Skip(Num(PLACEMENT_SEED), MUSHROOM_COUNT - 1)
    /\ mush.instanceTypes # TypeTags(mush.counts)
    /\ TagsPermuted

\* handle s was returned by getPlacementPrng()
FromGetPlacementPrng(s) == streams[s].arg.kind = "getPlacementPrng"

\* C23: getPlacementPrng returns the global placement stream with the fixed seed
\* 54321: the handles of two calls refer to the same stream state, so whatever has
\* been drawn through one handle, both are in the same state and a draw through
\* either returns the same next value.
C23_OnePlacementStream ==
    (FromGetPlacementPrng(1) /\ FromGetPlacementPrng(2)) =>
        /\ streams[1].seed = streams[2].seed
        /\ Random(streams[1].seed).k = Random(streams[2].seed).k

----------------------------------------------------------------------------
(* Spawned-mushroom claims (specification SpecSpawn)                       *)

\* the step is a pointer event that spawned a mushroom
Spawns == pointerEvents' # pointerEvents /\ spawnedMushrooms' # spawnedMushrooms

\* the meshes in the array
Meshes(list) == {list[k].mesh : k \in DOMAIN list}

\* C22: the array of spawned mushrooms never holds more than
\* MAX_SPAWNED_MUSHROOMS (50) entries; a spawn made at the limit removes exactly
\* the oldest entry, keeps the others in order and appends the new one, and a
\* spawn made below the limit removes nothing.
C22_SpawnLimitFifo ==
    /\ [](Len(spawnedMushrooms) <= MAX_SPAWNED_MUSHROOMS)
    /\ [][Spawns =>
            /\ spawnedMushrooms'[Len(spawnedMushrooms')].mesh \notin Meshes(spawnedMushrooms)
            /\ IF Len(spawnedMushrooms) >= MAX_SPAWNED_MUSHROOMS
               THEN /\ Len(spawnedMushrooms') = MAX_SPAWNED_MUSHROOMS
                    /\ \A k \in 1..(MAX_SPAWNED_MUSHROOMS - 1) :
                          spawnedMushrooms'[k] = spawnedMushrooms[k + 1]
                    /\ spawnedMushrooms[1].mesh \notin Meshes(spawnedMushrooms')
               ELSE /\ Len(spawnedMushrooms') = Len(spawnedMushrooms) + 1
                    /\ \A k \in DOMAIN spawnedMushrooms :
                          spawnedMushrooms'[k] = spawnedMushrooms[k]]_vars

\* a full array whose first mesh is no longer the first one created: a spawn at
\* the limit has evicted
C22_Witness ==
    /\ Len(spawnedMushrooms) = MAX_SPAWNED_MUSHROOMS
    /\ pointerEvents > 0
    /\ spawnedMushrooms[1].mesh = 2
    /\ spawnedMushrooms[MAX_SPAWNED_MUSHROOMS].mesh = MAX_SPAWNED_MUSHROOMS + 1

\* the last event was a pointer event
Pointed == last.event = "pointerdown"

\* C30: however pointer events interleave with the model load, a pointer event
\* spawns only after the load callback has run: when onPointerDown reaches
\* spawnMushroom the templates and the portal are set, so neither early return of
\* spawnMushroom is ever taken, and the array is empty until the model has loaded.
C30_SpawnsOnlyAfterLoad ==
    /\ [](Pointed => last.outcome \in {"noGate", "miss", "spawned"})
    /\ [](mushroomGate => mushroomTemplates > 0 /\ portalMesh.exists)
    /\ [](~mushroomGate => spawnedMushrooms = <<>>)
    /\ [][Spawns => mushroomGate /\ mushroomTemplates > 0 /\ portalMesh.exists]_vars

\* a pointer event that spawned the first mushroom, after frames that ran before
\* the model had loaded
C30_Witness ==
    /\ Pointed
    /\ last.outcome = "spawned"
    /\ dayTimeProgress = ProgressOne \div 4
    /\ frames > 0
    /\ Len(spawnedMushrooms) = 1
    /\ spawnedMushrooms[1].airborne

\* the step is a frame that has been counted, of last'.delta ticks
Ticks == frames' # frames

\* C28: a falling mushroom (velocity.y < 0) that a frame finds below the terrain
\* height at its (x, z) is put at exactly that height, with airborne = false and
\* x and z rotation 0, and it lands in no other way; once landed, no frame (and no
\* other event short of its eviction) changes its position, velocity, rotation or
\* airborne flag.
C28_LandsOnTerrainAndStays ==
    /\ [][Ticks =>
            \A k \in DOMAIN spawnedMushrooms :
                LET before == spawnedMushrooms[k]
                    after == spawnedMushrooms'[k]
                    terrainHeight == GetTerrainHeight(after.position.x, after.position.z)
                    fallenTo == before.position.y
                                  + (after.velocity.y * last'.delta) \div TicksPerSecond
                IN  /\ after.mesh = before.mesh
                    /\ before.airborne =>
                          /\ (after.velocity.y < 0 /\ fallenTo < terrainHeight)
                                <=> ~after.airborne
                          /\ ~after.airborne =>
                                /\ after.position.y = terrainHeight
                                /\ after.rotation.x = 0
                                /\ after.rotation.z = 0
                          /\ after.airborne => after.position.y = fallenTo
                    /\ ~before.airborne => after = before]_vars
    /\ [][\A k \in DOMAIN spawnedMushrooms :
            ~spawnedMushrooms[k].airborne =>
                \A n \in {k - 1, k} \cap DOMAIN spawnedMushrooms' :
                    spawnedMushrooms'[n].mesh = spawnedMushrooms[k].mesh =>
                        spawnedMushrooms'[n] = spawnedMushrooms[k]]_vars
    /\ [][\A k \in DOMAIN spawnedMushrooms, n \in DOMAIN spawnedMushrooms' :
            spawnedMushrooms'[n].mesh = spawnedMushrooms[k].mesh => n \in {k - 1, k}]_vars

\* the mushroom spawned into the full scene has landed on the terrain, and a
\* frame has passed over it since
C28_Witness ==
    /\ last.event = "tick"
    /\ \E k \in DOMAIN spawnedMushrooms :
          LET m == spawnedMushrooms[k]
          IN  /\ m.mesh = MAX_SPAWNED_MUSHROOMS + 1
              /\ ~m.airborne
              /\ m.velocity.y < 0
              /\ m.position.y = GetTerrainHeight(m.position.x, m.position.z)
              /\ m.rotation.y # 0
              /\ frames = MaxFrames

\* the meshes created in a run: the first ones of an empty scene, or the ones
\* that follow a full scene
RunMeshes ==
    (1..MaxPointerEvents)
        \cup ((MAX_SPAWNED_MUSHROOMS + 1)..(MAX_SPAWNED_MUSHROOMS + MaxPointerEvents))

\* the n-th mushroom spawned in the run is in the array and airborne
Airborne(n) ==
    \E k \in DOMAIN spawnedMushrooms :
        /\ spawnedMushrooms[k].mesh \in {n, MAX_SPAWNED_MUSHROOMS + n}
        /\ spawnedMushrooms[k].airborne

\* it is airborne, and frames of one tick would land it within the frames left
LandsInTime(n) ==
    \E k \in DOMAIN spawnedMushrooms :
        /\ spawnedMushrooms[k].mesh \in {n, MAX_SPAWNED_MUSHROOMS + n}
        /\ spawnedMushrooms[k].airborne
        /\ ~Flown(spawnedMushrooms[k], MaxFrames - frames).airborne

----------------------------------------------------------------------------
(* Phase, progress and label of the day/night cycle (specification Spec)   *)

\* C24: in every reachable state of the cycle (after ticks, automatic
\* transitions, manual toggles and the model load) the progress of the inactive
\* phase is 0: nightTimeProgress = 0 by day and dayTimeProgress = 0 by night.
C24_InactiveProgressZero ==
    /\ isDaytime => nightTimeProgress = 0
    /\ ~isDaytime => dayTimeProgress = 0

\* night has advanced after the model load, and the day progress is at 0
C24_Witness ==
    /\ ~isDaytime
    /\ mushroomGate
    /\ last.event = "tick"
    /\ nightTimeProgress > ProgressOne \div 4
    /\ dayTimeProgress = 0

\* C25: after initialisation, after every manual toggle and after every automatic
\* transition the label of the toggle button agrees with the phase: it reads
\* 'Switch to Night' exactly when isDaytime is true and 'Switch to Day' exactly
\* when isDaytime is false (in main.js and in app.js).
C25_LabelAgreesWithPhase ==
    /\ textContent = ButtonText(isDaytime)
    /\ app.textContent = ButtonText(app.isDaytime)

\* C26: while the phase does not change, the progress of the active phase never
\* decreases from one event to the next: ticks add delta / duration >= 0, and no
\* other event (the model-load callback in particular, whenever it runs) moves
\* it backwards.
C26_ProgressNeverDecreases ==
    [][isDaytime' = isDaytime => ActiveProgress' >= ActiveProgress]_vars

\* the step is a tick that changed the phase
TickFlips == last'.event = "tick" /\ last' # last /\ isDaytime' # isDaytime

\* C27: with frames of positive length coming and no click on the toggle, the
\* phase always eventually changes: every Day state is followed by a Night state
\* and every Night state by a Day state; a single tick changes the phase at most
\* once, however long it is: it leaves the new phase at progress 0, and only when
\* the old phase's progress has reached 1.0.
C27_PhasesAlternate ==
    /\ isDaytime ~> ~isDaytime
    /\ (~isDaytime) ~> isDaytime
    /\ [][TickFlips =>
            /\ dayTimeProgress' = 0
            /\ nightTimeProgress' = 0
            /\ last'.delta > 0
            /\ ActiveProgress + last'.delta * (IF isDaytime THEN DayStep ELSE NightStep)
                 >= ProgressOne]_vars
    /\ [][isDaytime' # isDaytime => last'.event = "tick"]_vars

\* one frame longer than a whole day and a whole night has turned Day into Night,
\* at progress 0
C27_Witness ==
    /\ ~isDaytime
    /\ last.event = "tick"
    /\ last.isDaytime
    /\ last.delta = MaxDelta
    /\ last.progress < ProgressOne \div 4
    /\ nightTimeProgress = 0

====
